---- MODULE Spec2Model ----
(* A model of go-jsonrpc2: the client's pending-call table, read loop,      *)
(* Call / Notify / Batch / Close, and the server's registry, serving loop  *)
(* and semaphore-gated batch dispatcher.                                    *)
EXTENDS Integers, Sequences, FiniteSets, TLC

(***************************************************************************)
(* Bounds of the model.                                                    *)
(***************************************************************************)
NumCallers == 2
MaxBatchLen == 2
NumConns == 2
MaxUnits == 2

Callers == 1..NumCallers
Conns == 1..NumConns
\* The connection the client's read-writer is attached to.
ClientConn == 1

(***************************************************************************)
(* JSON values, identifiers, errors and messages.                          *)
(***************************************************************************)
JNull == [k |-> "null", n |-> 0, l |-> <<>>]
JInt(i) == [k |-> "int", n |-> i, l |-> <<>>]
JStr(i) == [k |-> "str", n |-> i, l |-> <<>>]
JList(s) == [k |-> "list", n |-> 0, l |-> s]

\* An *ID: nil pointer (absent), ID{} (null), ID{i64} or ID{str}.
NoID == [t |-> "absent", v |-> 0]
NullID == [t |-> "null", v |-> 0]
Int64ID(i) == [t |-> "int", v |-> i]
StringID(s) == [t |-> "str", v |-> s]

ParseErrorCode == -32700
InvalidRequestCode == -32600
MethodNotFoundCode == -32601
InvalidParamsCode == -32602
InternalErrorCode == -32603

MkError(code, msg) == [Code |-> code, Message |-> msg, Data |-> <<>>]
ErrInvalidRequest == MkError(InvalidRequestCode, "Invalid Request")
ErrMethodNotFound == MkError(MethodNotFoundCode, "Method not found")
ErrInvalidParams == MkError(InvalidParamsCode, "Invalid params")
ErrInternalError == MkError(InternalErrorCode, "Internal error")
\* Errors that are not the library's Error type, in the same record shape.
ErrCanceled == MkError(0, "context canceled")
ErrWrite == MkError(0, "write failed")
ErrUnmarshal == MkError(0, "unexpected end of JSON input")
ErrPlain == MkError(0, "plain error")

\* Request{Method, Params, ID}; Params and optional parts are 0/1-element sequences.
Request(method, params, id) == [Method |-> method, Params |-> params, ID |-> id]
\* Response{Result, Error, ID}.
Response(result, error, id) == [Result |-> result, Error |-> error, ID |-> id]
\* The zero value a receive from a closed channel yields.
ZeroResponse == Response(<<>>, <<>>, NoID)

(***************************************************************************)
(* The wire: a unit is one JSON value, an object, an array or garbage.     *)
(***************************************************************************)
WireObj(m) == [kind |-> "obj", msgs |-> <<m>>]
WireArr(ms) == [kind |-> "arr", msgs |-> ms]
WireBad == [kind |-> "bad", msgs |-> <<>>]

\* messageList.MarshalJSON: a one-element list WITH the flag set is written as
\* the bare element, everything else as an array.
MarshalList(l) ==
  IF Len(l.Messages) = 1 /\ l.IsBatch
    THEN WireObj(l.Messages[1])
    ELSE WireArr(l.Messages)

\* messageList.UnmarshalJSON: input starting with '[' is a batch.
UnmarshalList(u) ==
  IF u.kind = "arr"
    THEN [ok |-> TRUE, IsBatch |-> TRUE, Messages |-> u.msgs]
    ELSE IF u.kind = "obj"
      THEN [ok |-> TRUE, IsBatch |-> FALSE, Messages |-> u.msgs]
      ELSE [ok |-> FALSE, IsBatch |-> FALSE, Messages |-> <<>>]

\* Decoding "id": a JSON null leaves the *ID pointer nil, like an absent field.
DecodeID(id) == IF id.t = "null" THEN NoID ELSE id
\* Encoding a Response: a nil *ID is written as null ("id" has no omitempty).
EncodeRespID(id) == IF id.t = "absent" THEN NullID ELSE id

DecodeRequest(m) == Request(m.Method, m.Params, DecodeID(m.ID))
DecodeResponse(m) == Response(m.Result, m.Error, DecodeID(m.ID))
EncodeResponse(r) == Response(r.Result, r.Error, EncodeRespID(r.ID))

\* Element-wise decoding and encoding of a list of messages.
DecodeRequests(ms) == [i \in 1..Len(ms) |-> DecodeRequest(ms[i])]
DecodeResponses(ms) == [i \in 1..Len(ms) |-> DecodeResponse(ms[i])]
EncodeResponses(rs) == [i \in 1..Len(rs) |-> EncodeResponse(rs[i])]

(***************************************************************************)
(* ID.MarshalJSON and ID.UnmarshalJSON, on JSON texts.  A text is a         *)
(* sequence of characters; "q" stands for the double quote and "b" for the *)
(* backslash.                                                              *)
(***************************************************************************)
DigitChars == <<"0", "1", "2", "3", "4", "5", "6", "7", "8", "9">>
IsDigit(c) == \E d \in 1..10 : DigitChars[d] = c
DigitValue(c) == (CHOOSE d \in 1..10 : DigitChars[d] = c) - 1

\* ID{i64, str}: each field a nil or set pointer.
IDValue(i64, str) == [i64 |-> i64, str |-> str]

TextNull == <<"n", "u", "l", "l">>

\* strconv.FormatInt(i, 10), which json.Marshal of an *int64 writes.
RECURSIVE FormatNat(_)
FormatNat(n) ==
  IF n < 10 THEN <<DigitChars[n + 1]>>
  ELSE FormatNat(n \div 10) \o <<DigitChars[(n % 10) + 1]>>
FormatInt(i) == IF i < 0 THEN <<"-">> \o FormatNat(-i) ELSE FormatNat(i)

\* json.Marshal of a *string: quoted, the quote and the backslash escaped.
RECURSIVE EscapeString(_)
EscapeString(str) ==
  IF str = <<>> THEN <<>>
  ELSE (IF Head(str) \in {"q", "b"} THEN <<"b", Head(str)>> ELSE <<Head(str)>>)
         \o EscapeString(Tail(str))
MarshalString(str) == <<"q">> \o EscapeString(str) \o <<"q">>

\* ID.MarshalJSON
IDMarshalJSON(id) ==
  IF id.i64 # <<>> THEN FormatInt(id.i64[1])
  ELSE IF id.str # <<>> THEN MarshalString(id.str[1])
  ELSE TextNull

\* strconv.ParseInt(s, 10, 64): an optional sign, then digits only, at least one.
RECURSIVE ParseNat(_, _)
ParseNat(text, acc) ==
  IF text = <<>> THEN acc ELSE ParseNat(Tail(text), acc * 10 + DigitValue(Head(text)))
ParseInt(text) ==
  LET signed == text # <<>> /\ Head(text) \in {"-", "+"}
      digits == IF signed THEN Tail(text) ELSE text
  IN
    IF digits = <<>> \/ \E k \in 1..Len(digits) : ~IsDigit(digits[k])
      THEN [ok |-> FALSE, v |-> 0]
      ELSE [ok |-> TRUE,
            v |-> IF signed /\ Head(text) = "-" THEN 0 - ParseNat(digits, 0) ELSE ParseNat(digits, 0)]

\* json.Unmarshal of a string literal: the characters between the quotes,
\* escapes undone; an unescaped quote inside, a backslash before anything but
\* a quote or a backslash, or a missing closing quote is an error.
RECURSIVE UnescapeString(_)
UnescapeString(body) ==
  IF body = <<>> THEN [ok |-> TRUE, str |-> <<>>]
  ELSE IF Head(body) = "q" THEN [ok |-> FALSE, str |-> <<>>]
  ELSE IF Head(body) = "b"
    THEN IF Len(body) >= 2 /\ body[2] \in {"q", "b"}
           THEN LET rest == UnescapeString(Tail(Tail(body))) IN
                  [ok |-> rest.ok, str |-> <<body[2]>> \o rest.str]
           ELSE [ok |-> FALSE, str |-> <<>>]
  ELSE LET rest == UnescapeString(Tail(body)) IN
         [ok |-> rest.ok, str |-> <<Head(body)>> \o rest.str]

UnmarshalString(text) ==
  IF Len(text) < 2 \/ Head(text) # "q" \/ text[Len(text)] # "q"
    THEN [ok |-> FALSE, str |-> <<>>]
    ELSE UnescapeString(SubSeq(text, 2, Len(text) - 1))

\* The text before the first ".".
RECURSIVE BeforePoint(_)
BeforePoint(text) ==
  IF text = <<>> \/ Head(text) = "." THEN <<>> ELSE <<Head(text)>> \o BeforePoint(Tail(text))

\* A decoding that takes the integral part of a number with a fraction.
IDUnmarshalJSONTruncating(data) ==
  IF data = TextNull \/ data = <<>>
    THEN [ok |-> TRUE, id |-> IDValue(<<>>, <<>>)]
  ELSE IF (Head(data) = "-" \/ IsDigit(Head(data))) /\ ParseInt(BeforePoint(data)).ok
    THEN [ok |-> TRUE, id |-> IDValue(<<ParseInt(BeforePoint(data)).v>>, <<>>)]
  ELSE IF Head(data) = "q" /\ UnmarshalString(data).ok
    THEN [ok |-> TRUE, id |-> IDValue(<<>>, <<UnmarshalString(data).str>>)]
  ELSE [ok |-> FALSE, id |-> IDValue(<<>>, <<>>)]

\* ID.UnmarshalJSON: both fields are reset; null or no data leaves them nil;
\* data starting with '-' or a digit is an integer if ParseInt takes it; data
\* starting with a quote is a string if it unmarshals; anything else fails
\* with ErrInvalidIDType.
IDUnmarshalJSON(data) ==
  IF data = TextNull \/ data = <<>>
    THEN [ok |-> TRUE, id |-> IDValue(<<>>, <<>>)]
  ELSE IF (Head(data) = "-" \/ IsDigit(Head(data))) /\ ParseInt(data).ok
    THEN [ok |-> TRUE, id |-> IDValue(<<ParseInt(data).v>>, <<>>)]
  ELSE IF Head(data) = "q" /\ UnmarshalString(data).ok
    THEN [ok |-> TRUE, id |-> IDValue(<<>>, <<UnmarshalString(data).str>>)]
  ELSE [ok |-> FALSE, id |-> IDValue(<<>>, <<>>)]

(***************************************************************************)
(* ErrorCode.String. A string is a sequence of pieces: the text up to the  *)
(* opening parenthesis, the characters of the number, the closing one.     *)
(***************************************************************************)
\* The two numbers the code compares a code with to tell a server error.
ServerErrorStart == -32000
ServerErrorEnd == -32099

\* fmt.Sprintf("<label> (%d)", n)
Sprintf(label, n) == <<label>> \o FormatInt(n) \o <<")">>

\* ErrorCode.String: the switch over the five reserved codes, then the test
\* -32000 <= e && e <= -32099, then the default.
ErrorCodeString(e) ==
  IF e = ParseErrorCode THEN Sprintf("Parse error (", ParseErrorCode)
  ELSE IF e = InvalidRequestCode THEN Sprintf("Invalid Request (", InvalidRequestCode)
  ELSE IF e = MethodNotFoundCode THEN Sprintf("Method not found (", MethodNotFoundCode)
  ELSE IF e = InvalidParamsCode THEN Sprintf("Invalid params (", InvalidParamsCode)
  ELSE IF e = InternalErrorCode THEN Sprintf("Internal error (", InternalErrorCode)
  ELSE IF ServerErrorStart <= e /\ e <= ServerErrorEnd THEN Sprintf("Server error (", e)
  ELSE Sprintf("Error (", e)

(***************************************************************************)
(* State.                                                                  *)
(***************************************************************************)
VARIABLES
  callers,    \* per caller goroutine: where it is in Call / Notify / Batch and its locals
  ch,         \* Client.ch: pending-call table, ID -> channel
  chans,      \* the channels made so far: buffer (capacity 1), closed flag, sends so far
  nextID,     \* Client.nextID
  mu,         \* Client.mu: "free" or the holder
  rl,         \* the read loop goroutine (Client.run): position, messages left of the unit,
              \* and whether the response before the one at hand was dropped
  closePc,    \* the goroutine calling Close: "idle", "lock" (closer called), "done"
  panicked,   \* a goroutine of the client process panicked (close of a closed channel, ...)
  inS,        \* per connection: units in flight towards the server
  outS,       \* per connection: units written by the server, not yet read by the peer
  handlers,   \* Server.handlers: the registry, a list of (name, handler) sorted by name
  onCalls,    \* history: the On(name, handler) calls made so far, in order
  semaphore,  \* Server.semaphore: slots taken
  conns,      \* per connection: the ServeForOne / callAll goroutine and its locals
  tasks,      \* batch goroutines inside s.call: (connection, message index)
  releasing,  \* batch goroutines that have sent their result and not yet released the slot
  unitsSent,  \* units a scripted peer has written to the server so far
  idc,        \* the last use of the ID codec: the text given, the ID decoded, the text written
  on,         \* a goroutine inside Server.On: the statement it is at, its arguments and idx
  looked,     \* the last lookup a dispatch made while another goroutine may be inside On
  ecs         \* the last call of ErrorCode.String: the code and the string returned

clientVars == <<callers, ch, chans, nextID, mu, rl, closePc, panicked>>
streamVars == <<inS, outS>>
serverVars == <<handlers, onCalls, semaphore, conns, tasks, releasing, unitsSent>>
vars == <<callers, ch, chans, nextID, mu, rl, closePc, panicked,
          inS, outS, handlers, onCalls, semaphore, conns, tasks, releasing, unitsSent, idc,
          on, looked, ecs>>

\* A channel reference is the ID the channel was made for; reqs without one hold NoChan.
NoChan == -1

IdleCaller ==
  [pc |-> "idle", kind |-> "none", reqs |-> <<>>, chs |-> <<>>, ids |-> <<>>,
   resps |-> <<>>, result |-> <<>>, err |-> <<>>]

NewChan == [buf |-> <<>>, closed |-> FALSE, sent |-> 0]

\* make(chan Response, 1) registered under id: the body of makeChan / of Batch's loop.
RegisterChan(table, id) == [k \in DOMAIN table \cup {id} |-> IF k = id THEN id ELSE table[k]]
\* A delete that leaves the entry in the table.
DeleteKeyKeeps(table, id) == table

\* delete(c.ch, id)
DeleteKey(table, id) == [k \in DOMAIN table \ {id} |-> table[k]]

\* close(ch) on every channel of set cs.
CloseChans(cs) == [c \in DOMAIN chans |-> IF c \in cs THEN [chans[c] EXCEPT !.closed = TRUE] ELSE chans[c]]
\* close of an already closed channel panics.
ClosePanics(cs) == \E c \in cs : chans[c].closed

BatchRequest(method, params, isNotify) == [Method |-> method, Params |-> params, IsNotify |-> isNotify]
BatchResponse(method, params, result, error) ==
  [Method |-> method, Params |-> params, Result |-> result, Error |-> error]

\* What callers ask for: (method, params) pairs.
AddParams == JList(<<1, 2>>)
CountParams == JInt(3)
ClientCalls == {<<"add", AddParams>>}
ClientNotifies == {<<"count", CountParams>>}
ClientBatchRequests ==
  {BatchRequest("add", AddParams, FALSE), BatchRequest("count", CountParams, TRUE)}

SeqsUpTo(S, n) == UNION {[1..k -> S] : k \in 0..n}

WriteToServer(u) == inS' = [inS EXCEPT ![ClientConn] = Append(@, u)]

(***************************************************************************)
(* Client.Call                                                             *)
(***************************************************************************)
\* makeChan: under the mutex, take the next ID and register a fresh channel.
CallMakeChan(p, name, params) ==
  /\ ~panicked
  /\ callers[p].pc = "idle"
  /\ mu = "free"
  /\ LET id == nextID IN
       /\ nextID' = nextID + 1
       /\ chans' = [c \in DOMAIN chans \cup {id} |-> IF c = id THEN NewChan ELSE chans[c]]
       /\ ch' = RegisterChan(ch, id)
       /\ callers' = [callers EXCEPT ![p] =
            [IdleCaller EXCEPT !.pc = "write", !.kind = "call",
                               !.reqs = <<BatchRequest(name, params, FALSE)>>,
                               !.chs = <<id>>, !.ids = <<id>>]]
  /\ UNCHANGED <<mu, rl, closePc, panicked, inS, outS>>
  /\ UNCHANGED <<serverVars, idc, on, looked, ecs>>

\* req.WriteTo succeeds: the Request, carrying the minted ID, is on the wire.
CallWrite(p) ==
  /\ ~panicked
  /\ callers[p].pc = "write" /\ callers[p].kind = "call"
  /\ WriteToServer(WireObj(Request(callers[p].reqs[1].Method, <<callers[p].reqs[1].Params>>,
                                   Int64ID(callers[p].ids[1]))))
  /\ callers' = [callers EXCEPT ![p].pc = "wait"]
  /\ UNCHANGED <<ch, chans, nextID, mu, rl, closePc, panicked, outS>>
  /\ UNCHANGED <<serverVars, idc, on, looked, ecs>>

\* req.WriteTo fails: delete(c.ch, id); close(ch); return err.
CallWriteFail(p) ==
  /\ ~panicked
  /\ callers[p].pc = "write" /\ callers[p].kind = "call"
  /\ mu = "free"
  /\ ch' = DeleteKey(ch, callers[p].ids[1])
  /\ panicked' = ClosePanics({callers[p].chs[1]})
  /\ chans' = CloseChans({callers[p].chs[1]})
  /\ callers' = [callers EXCEPT ![p].pc = "done", ![p].err = <<ErrWrite>>]
  /\ UNCHANGED <<nextID, mu, rl, closePc, inS, outS>>
  /\ UNCHANGED <<serverVars, idc, on, looked, ecs>>

\* The context is cancelled and the select takes case <-ctx.Done(): return ctx.Err().
\* (A cancelled context only enables this case; when the channel is ready too,
\* the select may take the other.)
CallSelectCtx(p) ==
  /\ ~panicked
  /\ callers[p].pc = "wait" /\ callers[p].kind = "call"
  /\ callers' = [callers EXCEPT ![p].pc = "done", ![p].err = <<ErrCanceled>>]
  /\ UNCHANGED <<ch, chans, nextID, mu, rl, closePc, panicked, inS, outS>>
  /\ UNCHANGED <<serverVars, idc, on, looked, ecs>>

\* A receive is ready when the buffer holds a value or the channel is closed.
RecvReady(c) == chans[c].buf # <<>> \/ chans[c].closed
RecvValue(c) == IF chans[c].buf # <<>> THEN Head(chans[c].buf) ELSE ZeroResponse
RecvChans(c) == [chans EXCEPT ![c].buf = IF @ # <<>> THEN Tail(@) ELSE @]

\* select: case res := <-ch: the Error if set, else json.Unmarshal(res.Result, result).
CallSelectRecv(p) ==
  /\ ~panicked
  /\ callers[p].pc = "wait" /\ callers[p].kind = "call"
  /\ RecvReady(callers[p].chs[1])
  /\ LET res == RecvValue(callers[p].chs[1]) IN
       callers' = [callers EXCEPT ![p].pc = "done",
                     ![p].err = IF res.Error # <<>> THEN res.Error
                                ELSE IF res.Result = <<>> THEN <<ErrUnmarshal>> ELSE <<>>,
                     ![p].result = IF res.Error = <<>> THEN res.Result ELSE <<>>]
  /\ chans' = RecvChans(callers[p].chs[1])
  /\ UNCHANGED <<ch, nextID, mu, rl, closePc, panicked, inS, outS>>
  /\ UNCHANGED <<serverVars, idc, on, looked, ecs>>

(***************************************************************************)
(* Client.Notify                                                           *)
(***************************************************************************)
\* A Notify that mints an ID for its request.
NotifyWriteMinting(p, name, params) ==
  /\ ~panicked
  /\ callers[p].pc = "idle"
  /\ WriteToServer(WireObj(Request(name, <<params>>, Int64ID(nextID))))
  /\ nextID' = nextID + 1
  /\ callers' = [callers EXCEPT ![p] =
       [IdleCaller EXCEPT !.pc = "done", !.kind = "notify",
                          !.reqs = <<BatchRequest(name, params, TRUE)>>]]
  /\ UNCHANGED <<ch, chans, mu, rl, closePc, panicked, outS>>
  /\ UNCHANGED <<serverVars, idc, on, looked, ecs>>

\* Notify: the request has no ID; written, Notify returns nil.
NotifyWrite(p, name, params) ==
  /\ ~panicked
  /\ callers[p].pc = "idle"
  /\ WriteToServer(WireObj(Request(name, <<params>>, NoID)))
  /\ callers' = [callers EXCEPT ![p] =
       [IdleCaller EXCEPT !.pc = "done", !.kind = "notify",
                          !.reqs = <<BatchRequest(name, params, TRUE)>>]]
  /\ UNCHANGED <<ch, chans, nextID, mu, rl, closePc, panicked, outS>>
  /\ UNCHANGED <<serverVars, idc, on, looked, ecs>>

\* Notify whose write fails: the write error is returned.
NotifyWriteFail(p, name, params) ==
  /\ ~panicked
  /\ callers[p].pc = "idle"
  /\ callers' = [callers EXCEPT ![p] =
       [IdleCaller EXCEPT !.pc = "done", !.kind = "notify",
                          !.reqs = <<BatchRequest(name, params, TRUE)>>,
                          !.err = <<ErrWrite>>]]
  /\ UNCHANGED <<ch, chans, nextID, mu, rl, closePc, panicked, inS, outS>>
  /\ UNCHANGED <<serverVars, idc, on, looked, ecs>>

(***************************************************************************)
(* Client.Batch                                                            *)
(***************************************************************************)
CallsBefore(reqs, i) == Cardinality({j \in 1..(i - 1) : ~reqs[j].IsNotify})

\* A registration loop that derives the ID from the index of the request.
BatchChsByIndex(reqs, first) ==
  [i \in 1..Len(reqs) |-> IF reqs[i].IsNotify THEN NoChan ELSE first + (i - 1)]

\* The registration loop: chs gets nil for a notification, a fresh channel under
\* the next ID for a call.
BatchChs(reqs, first) ==
  [i \in 1..Len(reqs) |-> IF reqs[i].IsNotify THEN NoChan ELSE first + CallsBefore(reqs, i)]

IsChan(c) == c # NoChan
BatchIds(chs) == SelectSeq(chs, IsChan)

\* req.Messages as the loop fills it.
BatchMessages(reqs, chs) ==
  [i \in 1..Len(reqs) |->
     Request(reqs[i].Method, <<reqs[i].Params>>,
             IF chs[i] = NoChan THEN NoID ELSE Int64ID(chs[i]))]

BatchRegister(p, reqs) ==
  /\ ~panicked
  /\ callers[p].pc = "idle"
  /\ mu = "free"
  /\ LET chs == BatchChs(reqs, nextID)
         ids == BatchIds(chs)
     IN
       /\ nextID' = nextID + Len(ids)
       /\ chans' = [c \in DOMAIN chans \cup {ids[k] : k \in 1..Len(ids)} |->
                      IF c \in DOMAIN chans THEN chans[c] ELSE NewChan]
       /\ ch' = [k \in DOMAIN ch \cup {ids[j] : j \in 1..Len(ids)} |->
                   IF k \in {ids[j] : j \in 1..Len(ids)} THEN k ELSE ch[k]]
       /\ callers' = [callers EXCEPT ![p] =
            [IdleCaller EXCEPT !.pc = "write", !.kind = "batch", !.reqs = reqs,
                               !.chs = chs, !.ids = ids]]
  /\ UNCHANGED <<mu, rl, closePc, panicked, inS, outS>>
  /\ UNCHANGED <<serverVars, idc, on, looked, ecs>>

\* destroy(): every ID of this batch still in the table is deleted and the
\* channel the table holds for it closed.
DestroyKeys(ids) == {ids[j] : j \in 1..Len(ids)} \cap DOMAIN ch

\* A destroy that leaves the table and the channels alone.
DestroyNothing(ids) ==
  /\ panicked' = panicked
  /\ chans' = chans
  /\ ch' = ch

Destroy(ids) ==
  /\ panicked' = ClosePanics({ch[k] : k \in DestroyKeys(ids)})
  /\ chans' = CloseChans({ch[k] : k \in DestroyKeys(ids)})
  /\ ch' = [k \in DOMAIN ch \ DestroyKeys(ids) |-> ch[k]]

BatchWrite(p) ==
  /\ ~panicked
  /\ callers[p].pc = "write" /\ callers[p].kind = "batch"
  /\ WriteToServer(MarshalList([IsBatch |-> TRUE,
                                Messages |-> BatchMessages(callers[p].reqs, callers[p].chs)]))
  /\ callers' = [callers EXCEPT ![p].pc = IF Len(callers[p].chs) = 0 THEN "done" ELSE "wait"]
  /\ UNCHANGED <<ch, chans, nextID, mu, rl, closePc, panicked, outS>>
  /\ UNCHANGED <<serverVars, idc, on, looked, ecs>>

BatchWriteFail(p) ==
  /\ ~panicked
  /\ callers[p].pc = "write" /\ callers[p].kind = "batch"
  /\ mu = "free"
  /\ Destroy(callers[p].ids)
  /\ callers' = [callers EXCEPT ![p].pc = "done", ![p].err = <<ErrWrite>>]
  /\ UNCHANGED <<nextID, mu, rl, closePc, inS, outS>>
  /\ UNCHANGED <<serverVars, idc, on, looked, ecs>>

\* The wait loop is at index Len(resps) + 1.
BatchIndex(p) == Len(callers[p].resps) + 1

\* A wait loop that takes whichever of the batch's channels is ready.
BatchWaitChanAnyReady(p) ==
  LET own == {callers[p].chs[k] : k \in 1..Len(callers[p].chs)} \ {NoChan}
      ready == {c \in own : chans[c].buf # <<>> \/ chans[c].closed}
  IN IF callers[p].chs[BatchIndex(p)] # NoChan /\ ready # {}
       THEN CHOOSE c \in ready : \A d \in ready : c >= d
       ELSE callers[p].chs[BatchIndex(p)]

\* for i, ch := range chs: the channel the loop waits on is the i-th.
BatchWaitChan(p) == callers[p].chs[BatchIndex(p)]
BatchAfter(p) == IF BatchIndex(p) = Len(callers[p].chs) THEN "done" ELSE "wait"

\* ch == nil: a nil placeholder.
BatchWaitNil(p) ==
  /\ ~panicked
  /\ callers[p].pc = "wait" /\ callers[p].kind = "batch"
  /\ BatchWaitChan(p) = NoChan
  /\ callers' = [callers EXCEPT ![p].resps = Append(@, <<>>), ![p].pc = BatchAfter(p)]
  /\ UNCHANGED <<ch, chans, nextID, mu, rl, closePc, panicked, inS, outS>>
  /\ UNCHANGED <<serverVars, idc, on, looked, ecs>>

\* The context is cancelled and the select takes case <-ctx.Done():
\* destroy(); return nil, ctx.Err()
BatchWaitCtx(p) ==
  /\ ~panicked
  /\ callers[p].pc = "wait" /\ callers[p].kind = "batch"
  /\ BatchWaitChan(p) # NoChan
  /\ mu = "free"
  /\ Destroy(callers[p].ids)
  /\ callers' = [callers EXCEPT ![p].pc = "done", ![p].resps = <<>>, ![p].err = <<ErrCanceled>>]
  /\ UNCHANGED <<nextID, mu, rl, closePc, inS, outS>>
  /\ UNCHANGED <<serverVars, idc, on, looked, ecs>>

\* case res := <-ch: the request's method and params with the response's result and error.
BatchWaitRecv(p) ==
  /\ ~panicked
  /\ callers[p].pc = "wait" /\ callers[p].kind = "batch"
  /\ BatchWaitChan(p) # NoChan
  /\ RecvReady(BatchWaitChan(p))
  /\ LET i == BatchIndex(p)
         res == RecvValue(BatchWaitChan(p))
     IN callers' = [callers EXCEPT
          ![p].resps = Append(@, <<BatchResponse(callers[p].reqs[i].Method,
                                                 callers[p].reqs[i].Params,
                                                 res.Result, res.Error)>>),
          ![p].pc = BatchAfter(p)]
  /\ chans' = RecvChans(BatchWaitChan(p))
  /\ UNCHANGED <<ch, nextID, mu, rl, closePc, panicked, inS, outS>>
  /\ UNCHANGED <<serverVars, idc, on, looked, ecs>>

(***************************************************************************)
(* The read loop (Client.run, Client.onResponse) and Client.Close          *)
(***************************************************************************)
RunAfter(msgs) == IF msgs = <<>> THEN "decode" ELSE "onResponse"

\* dec.DecodeContext: take the next unit; a unit that does not decode is skipped.
\* With nothing to read the loop stays here, cancelled context or not: an
\* error that is not io.EOF makes it continue.
RunDecode ==
  /\ ~panicked
  /\ rl.pc = "decode"
  /\ outS[ClientConn] # <<>>
  /\ Head(outS[ClientConn]).kind # "eof"
  /\ LET l == UnmarshalList(Head(outS[ClientConn]))
         msgs == IF l.ok THEN DecodeResponses(l.Messages) ELSE <<>>
     IN rl' = [rl EXCEPT !.msgs = msgs, !.pc = RunAfter(msgs), !.dropped = FALSE]
  /\ outS' = [outS EXCEPT ![ClientConn] = Tail(@)]
  /\ UNCHANGED <<callers, ch, chans, nextID, mu, closePc, panicked, inS>>
  /\ UNCHANGED <<serverVars, idc, on, looked, ecs>>

\* dec.DecodeContext returns io.EOF: break, the read loop returns.
RunEOF ==
  /\ ~panicked
  /\ rl.pc = "decode"
  /\ outS[ClientConn] # <<>>
  /\ Head(outS[ClientConn]).kind = "eof"
  /\ rl' = [rl EXCEPT !.pc = "returned"]
  /\ outS' = [outS EXCEPT ![ClientConn] = Tail(@)]
  /\ UNCHANGED <<callers, ch, chans, nextID, mu, closePc, panicked, inS>>
  /\ UNCHANGED <<serverVars, idc, on, looked, ecs>>

\* A return from onResponse that abandons the rest of the unit.
SkipUnit == [rl EXCEPT !.msgs = <<>>, !.pc = "decode", !.dropped = FALSE]

\* onResponse returns without a delivery: the range loop of run moves on to the
\* next response of the unit.
SkipResponse ==
  [rl EXCEPT !.msgs = Tail(@), !.pc = RunAfter(Tail(rl.msgs)), !.dropped = Tail(rl.msgs) # <<>>]

\* onResponse up to the send: nil or non-integer ID returns at once; else lock,
\* look the ID up and delete the entry.
RunOnResponse ==
  /\ ~panicked
  /\ rl.pc = "onResponse"
  /\ LET r == Head(rl.msgs) IN
       IF r.ID.t # "int"
         THEN /\ rl' = SkipResponse
              /\ UNCHANGED <<ch, mu>>
         ELSE /\ mu = "free"
              /\ IF r.ID.v \in DOMAIN ch
                   THEN /\ ch' = DeleteKey(ch, r.ID.v)
                        /\ mu' = "run"
                        /\ rl' = [rl EXCEPT !.pc = "send", !.c = ch[r.ID.v]]
                   ELSE /\ rl' = SkipResponse
                        /\ UNCHANGED <<ch, mu>>
  /\ UNCHANGED <<callers, chans, nextID, closePc, panicked, inS, outS>>
  /\ UNCHANGED <<serverVars, idc, on, looked, ecs>>

\* A send on a channel made without buffer: it goes through only while a
\* caller is receiving from the channel.
SendReadyUnbuffered(c) ==
  \/ chans[c].closed
  \/ \E p \in Callers :
       /\ callers[p].pc = "wait"
       /\ \/ callers[p].kind = "call" /\ callers[p].chs[1] = c
          \/ callers[p].kind = "batch" /\ BatchWaitChan(p) = c

\* A send on a channel of make(chan Response, 1) goes through while the buffer
\* has room (and panics at once on a closed channel).
SendReady(c) == chans[c].closed \/ Len(chans[c].buf) < 1

\* ch <- r; close(ch); then the deferred unlock. The send waits while the buffer is full.
RunSend ==
  /\ ~panicked
  /\ rl.pc = "send"
  /\ SendReady(rl.c)
  /\ panicked' = chans[rl.c].closed
  /\ chans' = [chans EXCEPT ![rl.c] = [buf |-> Append(@.buf, Head(rl.msgs)),
                                       closed |-> TRUE, sent |-> @.sent + 1]]
  /\ mu' = "free"
  /\ rl' = [rl EXCEPT !.msgs = Tail(@), !.pc = RunAfter(Tail(rl.msgs)), !.c = NoChan,
                       !.dropped = FALSE]
  /\ UNCHANGED <<callers, ch, nextID, closePc, inS, outS>>
  /\ UNCHANGED <<serverVars, idc, on, looked, ecs>>

EmptyTable == [k \in {} |-> NoChan]

\* c.closer()
CloseCancel ==
  /\ ~panicked
  /\ closePc = "idle"
  /\ closePc' = "lock"
  /\ UNCHANGED <<callers, ch, chans, nextID, mu, rl, panicked, inS, outS>>
  /\ UNCHANGED <<serverVars, idc, on, looked, ecs>>

\* Under the mutex: delete every entry and close its channel.
CloseLock ==
  /\ ~panicked
  /\ closePc = "lock"
  /\ mu = "free"
  /\ panicked' = ClosePanics({ch[k] : k \in DOMAIN ch})
  /\ chans' = CloseChans({ch[k] : k \in DOMAIN ch})
  /\ ch' = EmptyTable
  /\ closePc' = "done"
  /\ UNCHANGED <<callers, nextID, mu, rl, inS, outS>>
  /\ UNCHANGED <<serverVars, idc, on, looked, ecs>>

(***************************************************************************)
(* The server: registry, handlers, Server.call                             *)
(***************************************************************************)
\* WithMaxConcurrentCalls(n): the capacity of the semaphore channel.
MaxConcurrentCalls == 2

\* The order of method names (Go compares strings bytewise).
NameOrder == <<"add", "boom", "count", "fail", "noSuch">>
Range(q) == {q[k] : k \in 1..Len(q)}
\* The empty string, the name of a zero handlerInfo, comes before every name.
Rank(name) == IF name = "" THEN 0 ELSE CHOOSE i \in 1..Len(NameOrder) : NameOrder[i] = name
NameGeq(a, b) == Rank(a) >= Rank(b)

\* sort.Search(n, f): binary search for the least index in 0..n with f true,
\* on the 1-based list hs: the answer is lo, in 1..Len(hs)+1.
RECURSIVE Search(_, _, _, _)
Search(hs, name, lo, hi) ==
  IF lo < hi
    THEN LET h == lo + ((hi - lo) \div 2) IN
           IF ~NameGeq(hs[h].name, name)
             THEN Search(hs, name, h + 1, hi)
             ELSE Search(hs, name, lo, h)
    ELSE lo

SearchIdx(hs, name) == Search(hs, name, 1, Len(hs) + 1)

\* A registration that inserts at idx without looking for the name there.
OnInsertOnly(hs, name, m) ==
  LET idx == SearchIdx(hs, name) IN
    [i \in 1..(Len(hs) + 1) |->
       IF i < idx THEN hs[i]
       ELSE IF i = idx THEN [name |-> name, handler |-> m]
       ELSE hs[i - 1]]

\* Server.On: replace the handler of a registered name, else insert at idx.
On(hs, name, m) ==
  LET idx == SearchIdx(hs, name) IN
    IF idx <= Len(hs) /\ hs[idx].name = name
      THEN [hs EXCEPT ![idx].handler = m]
      ELSE [i \in 1..(Len(hs) + 1) |->
              IF i < idx THEN hs[i]
              ELSE IF i = idx THEN [name |-> name, handler |-> m]
              ELSE hs[i - 1]]

RECURSIVE Sum(_)
Sum(l) == IF l = <<>> THEN 0 ELSE Head(l) + Sum(Tail(l))

\* What a handler returns: (result, err); err is empty, or an error that is
\* (typed) or is not the library's Error.
Returned(result, err, typed) == [result |-> result, err |-> err, typed |-> typed]

\* json.Unmarshal(r.Params, &params) for the handler's parameter type.
ParamsDecode(type, params) ==
  /\ params # <<>>
  /\ \/ params[1].k = "null"
     \/ type = "ints" /\ params[1].k = "list"
     \/ type = "int" /\ params[1].k = "int"

ErrCustom == [Code |-> -32000, Message |-> "custom", Data |-> <<JInt(7)>>]

\* The handlers registered: callHandler / notifyHandler around a user function.
\*   sum     Call(func(ctx, []int) (int, error)): the sum of the params
\*   counter Notify(func(ctx, int) error): no result
\*   typed   Call returning the library's Error
\*   plain   Call returning another error
HandlerServe(h, params) ==
  IF ~ParamsDecode(IF h = "counter" THEN "int" ELSE "ints", params)
    THEN Returned(JNull, <<ErrInvalidParams>>, TRUE)
  ELSE IF h = "sum"
    THEN Returned(JInt(Sum(params[1].l)), <<>>, FALSE)
  ELSE IF h = "counter"
    THEN Returned(JNull, <<>>, FALSE)
  ELSE IF h = "typed"
    THEN Returned(JInt(0), <<ErrCustom>>, TRUE)
  ELSE Returned(JInt(0), <<ErrPlain>>, FALSE)

\* The name resolves to a registry entry.
Registered(hs, name) ==
  LET idx == SearchIdx(hs, name) IN idx <= Len(hs) /\ hs[idx].name = name

\* A dispatch that fails with an error that is not the library's Error when
\* the name is not found.
ServeJSONRPC2Untyped(hs, r) ==
  LET idx == SearchIdx(hs, r.Method) IN
    IF idx > Len(hs) \/ hs[idx].name # r.Method
      THEN Returned(JNull, <<ErrPlain>>, FALSE)
      ELSE HandlerServe(hs[idx].handler, r.Params)

\* Server.ServeJSONRPC2: binary-search the registry, then delegate.
ServeJSONRPC2(hs, r) ==
  LET idx == SearchIdx(hs, r.Method) IN
    IF idx > Len(hs) \/ hs[idx].name # r.Method
      THEN Returned(JNull, <<ErrMethodNotFound>>, TRUE)
      ELSE HandlerServe(hs[idx].handler, r.Params)

\* A call that builds a Response for a request without ID too.
ServerCallAnswersAll(hs, r) ==
  LET ret == ServeJSONRPC2(hs, r) IN
    IF ret.err # <<>> /\ ret.typed
      THEN <<Response(<<>>, ret.err, r.ID)>>
    ELSE IF ret.err # <<>>
      THEN <<Response(<<>>, <<MkError(InternalErrorCode, "Internal error")>>, r.ID)>>
    ELSE <<Response(<<ret.result>>, <<>>, r.ID)>>

\* A call that leaves the result out of the Response when the handler
\* returned nil.
ServerCallOmitsNil(hs, r) ==
  LET ret == ServeJSONRPC2(hs, r) IN
    IF r.ID = NoID
      THEN <<>>
      ELSE IF ret.err # <<>> /\ ret.typed
        THEN <<Response(<<>>, ret.err, r.ID)>>
      ELSE IF ret.err # <<>>
        THEN <<Response(<<>>, <<MkError(InternalErrorCode, "Internal error")>>, r.ID)>>
      ELSE IF ret.result = JNull
        THEN <<Response(<<>>, <<>>, r.ID)>>
      ELSE <<Response(<<ret.result>>, <<>>, r.ID)>>

\* A call that reports every handler failure as an Internal error.
ServerCallOpaque(hs, r) ==
  LET ret == ServeJSONRPC2(hs, r) IN
    IF r.ID = NoID
      THEN <<>>
      ELSE IF ret.err # <<>>
        THEN <<Response(<<>>, <<MkError(InternalErrorCode, "Internal error")>>, r.ID)>>
      ELSE <<Response(<<ret.result>>, <<>>, r.ID)>>

\* Server.call: dispatch first; nil for a request without ID; else the Response.
\* The result is <<>> for nil, <<resp>> otherwise.
ServerCall(hs, r) ==
  LET ret == ServeJSONRPC2(hs, r) IN
    IF r.ID = NoID
      THEN <<>>
      ELSE IF ret.err # <<>> /\ ret.typed
        THEN <<Response(<<>>, ret.err, r.ID)>>
      ELSE IF ret.err # <<>>
        THEN <<Response(<<>>, <<MkError(InternalErrorCode, "Internal error")>>, r.ID)>>
      ELSE <<Response(<<ret.result>>, <<>>, r.ID)>>

\* An error response that reports a Parse error whatever the error given.
NewErrorResponseParse(id, err) == Response(<<>>, <<MkError(ParseErrorCode, "Parse error")>>, id)

\* NewErrorResponse(NullID(), ErrInvalidRequest)
NewErrorResponse(id, err) == Response(<<>>, <<err>>, id)

(***************************************************************************)
(* Server.ServeForOne and Server.callAll                                   *)
(***************************************************************************)
WireEOF == [kind |-> "eof", msgs |-> <<>>]

IdleConn ==
  [pc |-> "read", unit |-> WireEOF, rs |-> [IsBatch |-> FALSE, Messages |-> <<>>],
   i |-> 0, n |-> 0, bch |-> <<>>, results |-> <<>>, wrote |-> <<>>, invoked |-> {}]

\* A write that puts its bytes before what the connection already holds.
ServerWriteFirst(c, cn, us) ==
  /\ outS' = [outS EXCEPT ![c] = us \o @]
  /\ conns' = [conns EXCEPT ![c] = [cn EXCEPT !.wrote = @ \o us]]

\* A write of the serving goroutine on its connection; wrote keeps what was
\* written since the current unit was read.
ServerWrite(c, cn, us) ==
  /\ outS' = [outS EXCEPT ![c] = @ \o us]
  /\ conns' = [conns EXCEPT ![c] = [cn EXCEPT !.wrote = @ \o us]]

\* r.Decode(&rs) returns io.EOF: ServeForOne returns.
ServeEOF(c) ==
  /\ conns[c].pc = "read"
  /\ inS[c] # <<>>
  /\ Head(inS[c]).kind = "eof"
  /\ inS' = [inS EXCEPT ![c] = Tail(@)]
  /\ conns' = [conns EXCEPT ![c].pc = "returned"]
  /\ UNCHANGED <<outS, handlers, onCalls, semaphore, tasks, releasing, unitsSent>>
  /\ UNCHANGED <<clientVars, idc, on, looked, ecs>>

\* r.Decode(&rs): a unit that does not decode is answered with an Invalid
\* Request response under the null ID; a single message goes to s.call; a
\* batch gets its channel and enters the spawn loop.
ServeDecode(c) ==
  /\ conns[c].pc = "read"
  /\ inS[c] # <<>>
  /\ Head(inS[c]).kind # "eof"
  /\ inS' = [inS EXCEPT ![c] = Tail(@)]
  /\ LET u == Head(inS[c])
         l == UnmarshalList(u)
         rs == [IsBatch |-> l.IsBatch, Messages |-> DecodeRequests(l.Messages)]
         cn == [IdleConn EXCEPT !.unit = u, !.rs = rs]
     IN
       IF ~l.ok
         THEN ServerWrite(c, cn,
                <<WireObj(EncodeResponse(NewErrorResponse(NullID, ErrInvalidRequest)))>>)
         ELSE /\ conns' = [conns EXCEPT ![c] =
                   [cn EXCEPT !.pc = IF ~rs.IsBatch THEN "single"
                                     ELSE IF Len(rs.Messages) > 0 THEN "spawn"
                                     ELSE "collect"]]
              /\ UNCHANGED outS
  /\ UNCHANGED <<handlers, onCalls, semaphore, tasks, releasing, unitsSent>>
  /\ UNCHANGED <<clientVars, idc, on, looked, ecs>>

\* Not a batch: r := s.call(ctx, rs.Messages[0]); written unless nil.
ServeSingle(c) ==
  /\ conns[c].pc = "single"
  /\ LET req == conns[c].rs.Messages[1]
         r == ServerCall(handlers, req)
         cn == [conns[c] EXCEPT !.pc = "read",
                  !.invoked = IF Registered(handlers, req.Method) THEN {1} ELSE {}]
     IN ServerWrite(c, cn, IF r = <<>> THEN <<>> ELSE <<WireObj(EncodeResponse(r[1]))>>)
  /\ UNCHANGED <<inS, handlers, onCalls, semaphore, tasks, releasing, unitsSent>>
  /\ UNCHANGED <<clientVars, idc, on, looked, ecs>>

\* A semaphore that never makes the sender wait.
SemaphoreHasRoomAlways == TRUE

\* s.semaphore <- struct{}{} goes through while the channel has room.
SemaphoreHasRoom == semaphore < MaxConcurrentCalls

\* The spawn loop: wait for a free slot, then start the goroutine for the
\* next message.
ServeSpawn(c) ==
  /\ conns[c].pc = "spawn"
  /\ SemaphoreHasRoom
  /\ semaphore' = semaphore + 1
  /\ tasks' = tasks \cup {<<c, conns[c].i + 1>>}
  /\ conns' = [conns EXCEPT ![c].i = @ + 1,
                            ![c].pc = IF conns[c].i + 1 = Len(conns[c].rs.Messages)
                                        THEN "collect" ELSE "spawn"]
  /\ UNCHANGED <<inS, outS, handlers, onCalls, releasing, unitsSent>>
  /\ UNCHANGED <<clientVars, idc, on, looked, ecs>>

\* A result channel without buffer: a send goes through only while the
\* collecting loop is receiving.
ResultChanUnbuffered(c) == conns[c].pc = "collect" /\ conns[c].bch = <<>>

\* ch := make(chan *Response[*any], len(rs.Messages)): a send goes through
\* while the buffer has room.
ResultChanHasRoom(c) == Len(conns[c].bch) < Len(conns[c].rs.Messages)

\* A batch goroutine: ch <- s.call(ctx, req).
TaskCall(c, i) ==
  /\ <<c, i>> \in tasks
  /\ ResultChanHasRoom(c)
  /\ LET req == conns[c].rs.Messages[i] IN
       conns' = [conns EXCEPT ![c].bch = Append(@, ServerCall(handlers, req)),
                    ![c].invoked = IF Registered(handlers, req.Method) THEN @ \cup {i} ELSE @]
  /\ tasks' = tasks \ {<<c, i>>}
  /\ releasing' = releasing + 1
  /\ UNCHANGED <<inS, outS, handlers, onCalls, semaphore, unitsSent>>
  /\ UNCHANGED <<clientVars, idc, on, looked, ecs>>

\* The goroutine's deferred <-s.semaphore.
TaskRelease ==
  /\ releasing > 0
  /\ releasing' = releasing - 1
  /\ semaphore' = semaphore - 1
  /\ UNCHANGED <<inS, outS, handlers, onCalls, conns, tasks, unitsSent>>
  /\ UNCHANGED <<clientVars, idc, on, looked, ecs>>

\* A reply that is skipped when nothing was collected.
BatchReplyUnlessEmpty(results) ==
  IF results = <<>> THEN <<>> ELSE <<WireArr(EncodeResponses(results))>>

\* json.NewEncoder(rw).Encode(results): the collected list, as one array.
BatchReply(results) == <<WireArr(EncodeResponses(results))>>

\* for resp := range ch: collect the non-nil responses; after len(rs.Messages)
\* receives, close(ch) and write the collected list as one array.
ServeCollect(c) ==
  /\ conns[c].pc = "collect"
  /\ conns[c].bch # <<>>
  /\ LET resp == Head(conns[c].bch)
         results == conns[c].results \o resp
         cn == [conns[c] EXCEPT !.bch = Tail(@), !.results = results, !.n = @ + 1]
     IN
       IF conns[c].n + 1 = Len(conns[c].rs.Messages)
         THEN ServerWrite(c, [cn EXCEPT !.pc = "read"], BatchReply(results))
         ELSE /\ conns' = [conns EXCEPT ![c] = cn]
              /\ UNCHANGED outS
  /\ UNCHANGED <<inS, handlers, onCalls, semaphore, tasks, releasing, unitsSent>>
  /\ UNCHANGED <<clientVars, idc, on, looked, ecs>>

(***************************************************************************)
(* Scripted peers                                                          *)
(***************************************************************************)
\* Responses a peer of the client may send, under a null, string or integer ID,
\* the integers up to the next one the client will mint. The payload tells the
\* responses apart: a result naming the ID for even IDs, an error for the others.
PeerPayload(id) ==
  IF id.t = "int" /\ id.v % 2 = 0
    THEN Response(<<JInt(id.v)>>, <<>>, id)
    ELSE Response(<<>>, <<[Code |-> MethodNotFoundCode, Message |-> "Method not found",
                          Data |-> <<JInt(id.v)>>]>>, id)

PeerResponses ==
  {PeerPayload(id) : id \in {NullID, StringID(1)} \cup {Int64ID(i) : i \in 0..nextID}}

\* Arrays answer pending calls, in any order, also twice. The peer may also
\* end the stream.
PeerPendingResponses == {PeerPayload(Int64ID(i)) : i \in DOMAIN ch}

PeerResponseUnits ==
  {WireBad, WireEOF} \cup {WireObj(r) : r \in PeerResponses}
            \cup {WireArr(rs) : rs \in SeqsUpTo(PeerPendingResponses, MaxBatchLen)}

\* The peer of the client writes a unit of responses, once the read loop has
\* taken the previous one.
PeerRespond(u) ==
  /\ ~panicked
  /\ outS[ClientConn] = <<>>
  /\ rl.pc = "decode"
  /\ outS' = [outS EXCEPT ![ClientConn] = <<u>>]
  /\ UNCHANGED <<callers, ch, chans, nextID, mu, rl, closePc, panicked, inS>>
  /\ UNCHANGED <<serverVars, idc, on, looked, ecs>>

\* Requests a peer of the server may send.
ServerReqs ==
  {Request("add", <<AddParams>>, Int64ID(1)),
   Request("count", <<CountParams>>, NoID),
   Request("noSuch", <<JNull>>, NullID),
   Request("add", <<JStr(1)>>, NoID),
   Request("noSuch", <<JNull>>, Int64ID(2))}

\* A batch of one call more than the semaphore has slots.
GateBatch ==
  WireArr([i \in 1..(MaxConcurrentCalls + 1) |-> Request("add", <<AddParams>>, Int64ID(i))])

PeerRequestUnits ==
  {WireBad, WireEOF} \cup {WireObj(m) : m \in ServerReqs}
                     \cup {WireArr(ms) : ms \in SeqsUpTo(ServerReqs, MaxBatchLen)}

\* A peer of the server, having read what the server wrote, writes its next unit.
PeerSend(c, u) ==
  /\ unitsSent < MaxUnits
  /\ conns[c].pc = "read"
  /\ inS[c] = <<>>
  /\ inS' = [inS EXCEPT ![c] = <<u>>]
  /\ outS' = [outS EXCEPT ![c] = <<>>]
  /\ unitsSent' = unitsSent + 1
  /\ UNCHANGED <<handlers, onCalls, semaphore, conns, tasks, releasing>>
  /\ UNCHANGED <<clientVars, idc, on, looked, ecs>>

(***************************************************************************)
(* Specifications                                                          *)
(***************************************************************************)
EmptyChans == [c \in {} |-> NewChan]

\* The ID codec before its use.
IdleCodec ==
  [op |-> "none", text |-> <<>>, ok |-> FALSE, src |-> IDValue(<<>>, <<>>),
   id |-> IDValue(<<>>, <<>>), out |-> <<>>]

\* No goroutine is inside On; no lookup and no String call has been made.
IdleOn == [pc |-> "idle", name |-> "", m |-> "nil", idx |-> 0]
NoLookup == [op |-> "none", name |-> "", found |-> FALSE, handler |-> "nil",
             registered |-> {}, pending |-> {}]
NoString == [op |-> "none", code |-> 0, out |-> <<>>]

\* NewClient on the client's connection; NewServer(WithMaxConcurrentCalls(..))
\* with its handlers registered by On.
Init ==
  /\ callers = [p \in Callers |-> IdleCaller]
  /\ ch = EmptyTable
  /\ chans = EmptyChans
  /\ nextID = 0
  /\ mu = "free"
  /\ rl = [pc |-> "decode", msgs |-> <<>>, c |-> NoChan, dropped |-> FALSE]
  /\ closePc = "idle"
  /\ panicked = FALSE
  /\ inS = [c \in Conns |-> <<>>]
  /\ outS = [c \in Conns |-> <<>>]
  /\ handlers = On(On(On(On(<<>>, "count", "counter"), "add", "sum"), "fail", "typed"),
                   "boom", "plain")
  /\ onCalls = <<<<"count", "counter">>, <<"add", "sum">>, <<"fail", "typed">>, <<"boom", "plain">>>>
  /\ semaphore = 0
  /\ conns = [c \in Conns |-> IdleConn]
  /\ tasks = {}
  /\ releasing = 0
  /\ unitsSent = 0
  /\ idc = IdleCodec
  /\ on = IdleOn
  /\ looked = NoLookup
  /\ ecs = NoString

\* A caller starts one of Call, Notify, Batch. The callers are interchangeable:
\* they are numbered in the order they start.
StartsNext(p) == \A q \in 1..(p - 1) : callers[q].pc # "idle"

CallerStart(p) ==
  \/ StartsNext(p) /\ \E c \in ClientCalls : CallMakeChan(p, c[1], c[2])
  \/ StartsNext(p) /\ \E c \in ClientNotifies : NotifyWrite(p, c[1], c[2])
  \/ StartsNext(p) /\ \E reqs \in SeqsUpTo(ClientBatchRequests, MaxBatchLen) : BatchRegister(p, reqs)

\* Calls made against the server only: of a method nobody registered, of the
\* method registered with Notify, and of the methods whose handlers fail.
ServedCalls ==
  {<<"noSuch", JNull>>, <<"count", CountParams>>, <<"fail", JNull>>, <<"boom", JNull>>}

CallerStartServed(p) ==
  StartsNext(p) /\ \E c \in ServedCalls : CallMakeChan(p, c[1], c[2])

\* The steps of a caller inside Call or Batch when every write succeeds.
CallerProgress(p) ==
  \/ CallWrite(p)
  \/ CallSelectRecv(p)
  \/ BatchWrite(p)
  \/ BatchWaitNil(p)
  \/ BatchWaitRecv(p)

\* The steps a failing write or a cancelled context adds.
CallerFailure(p) ==
  \/ StartsNext(p) /\ \E c \in ClientNotifies : NotifyWriteFail(p, c[1], c[2])
  \/ CallWriteFail(p)
  \/ CallSelectCtx(p)
  \/ BatchWriteFail(p)
  \/ BatchWaitCtx(p)

ReadLoop == RunDecode \/ RunOnResponse \/ RunSend

ServeStep(c) == ServeDecode(c) \/ ServeSingle(c) \/ ServeSpawn(c) \/ ServeCollect(c)

TaskStep == (\E t \in tasks : TaskCall(t[1], t[2])) \/ TaskRelease

\* The client and the server joined by a reliable stream: no write fails, no
\* context is cancelled, the client is not closed.
Next ==
  \/ \E p \in Callers : CallerStart(p)
  \/ \E p \in Callers : CallerStartServed(p)
  \/ \E p \in Callers : CallerProgress(p)
  \/ ReadLoop
  \/ \E c \in Conns : ServeStep(c)
  \/ TaskStep

Fairness ==
  /\ \A p \in Callers : WF_vars(CallerProgress(p))
  /\ WF_vars(ReadLoop)
  /\ \A c \in Conns : WF_vars(ServeStep(c))
  /\ WF_vars(TaskStep)

Spec == Init /\ [][Next]_vars /\ Fairness

\* The client alone, against a peer that answers anything in any order.
ClientNext ==
  \/ \E p \in Callers : CallerStart(p)
  \/ \E p \in Callers : CallerProgress(p)
  \/ \E p \in Callers : CallerFailure(p)
  \/ ReadLoop
  \/ RunEOF
  \/ CloseCancel
  \/ CloseLock
  \/ \E u \in PeerResponseUnits : PeerRespond(u)

\* Runnable goroutines run; sync.Mutex hands the lock to a goroutine that has
\* waited (starvation mode), so Close gets it although the read loop keeps taking it.
ClientFairness ==
  /\ \A p \in Callers : WF_vars(CallerProgress(p))
  /\ WF_vars(ReadLoop)
  /\ WF_vars(RunEOF)
  /\ SF_vars(CloseLock)

SpecClient == Init /\ [][ClientNext]_vars /\ ClientFairness

\* The server alone, every connection driven by a peer that sends any units.
ServerNext ==
  \/ \E c \in Conns : \E u \in PeerRequestUnits : PeerSend(c, u)
  \/ \E c \in Conns : ServeEOF(c)
  \/ \E c \in Conns : ServeStep(c)
  \/ TaskStep

ServerFairness ==
  /\ \A c \in Conns : WF_vars(ServeEOF(c) \/ ServeStep(c))
  /\ WF_vars(TaskStep)

SpecServer == Init /\ [][ServerNext]_vars /\ ServerFairness

\* The server under load on its semaphore: the peers send batches, one of them
\* longer than the semaphore's capacity, and single calls.
GateUnits ==
  {GateBatch,
   WireArr(<<Request("add", <<AddParams>>, Int64ID(1)), Request("count", <<CountParams>>, NoID)>>),
   WireArr(<<Request("boom", <<JNull>>, Int64ID(2))>>),
   WireObj(Request("add", <<AddParams>>, Int64ID(1)))}

GateNext ==
  \/ \E c \in Conns : \E u \in GateUnits : PeerSend(c, u)
  \/ \E c \in Conns : ServeStep(c)
  \/ TaskStep

GateFairness ==
  /\ \A c \in Conns : WF_vars(ServeStep(c))
  /\ WF_vars(TaskStep)

SpecGate == Init /\ [][GateNext]_vars /\ GateFairness

\* The registry alone: a new server on which On is called with any names and
\* handlers, in any order.
MaxOns == 3
HandlerKinds == {"sum", "counter", "typed", "plain"}

ServerOn(name, m) ==
  /\ Len(onCalls) < MaxOns
  /\ handlers' = On(handlers, name, m)
  /\ onCalls' = Append(onCalls, <<name, m>>)
  /\ UNCHANGED <<inS, outS, semaphore, conns, tasks, releasing, unitsSent>>
  /\ UNCHANGED <<clientVars, idc, on, looked, ecs>>

InitRegistry ==
  /\ callers = [p \in Callers |-> IdleCaller]
  /\ ch = EmptyTable
  /\ chans = EmptyChans
  /\ nextID = 0
  /\ mu = "free"
  /\ rl = [pc |-> "decode", msgs |-> <<>>, c |-> NoChan, dropped |-> FALSE]
  /\ closePc = "idle"
  /\ panicked = FALSE
  /\ inS = [c \in Conns |-> <<>>]
  /\ outS = [c \in Conns |-> <<>>]
  /\ handlers = <<>>
  /\ onCalls = <<>>
  /\ semaphore = 0
  /\ conns = [c \in Conns |-> IdleConn]
  /\ tasks = {}
  /\ releasing = 0
  /\ unitsSent = 0
  /\ idc = IdleCodec
  /\ on = IdleOn
  /\ looked = NoLookup
  /\ ecs = NoString

RegistryNext == \E name \in Range(NameOrder) : \E m \in HandlerKinds : ServerOn(name, m)

SpecRegistry == InitRegistry /\ [][RegistryNext]_vars

\* The server with peers that write ahead: a peer writes its next unit without
\* reading what the server wrote and without waiting for it. The n-th unit
\* written carries the ID n, and n + MaxUnits for the second call of a batch.
PipelineUnits(n) ==
  {WireObj(Request("add", <<AddParams>>, Int64ID(n))),
   WireObj(Request("count", <<CountParams>>, NoID)),
   WireArr(<<Request("add", <<AddParams>>, Int64ID(n)),
             Request("noSuch", <<JNull>>, Int64ID(n + MaxUnits))>>)}

PeerPipeline(c, u) ==
  /\ unitsSent < MaxUnits
  /\ inS' = [inS EXCEPT ![c] = Append(@, u)]
  /\ unitsSent' = unitsSent + 1
  /\ UNCHANGED <<outS, handlers, onCalls, semaphore, conns, tasks, releasing>>
  /\ UNCHANGED <<clientVars, idc, on, looked, ecs>>

PipelineNext ==
  \/ \E c \in Conns : \E u \in PipelineUnits(unitsSent + 1) : PeerPipeline(c, u)
  \/ \E c \in Conns : ServeStep(c)
  \/ TaskStep

SpecPipeline == Init /\ [][PipelineNext]_vars

\* The registry with On running beside dispatches. Neither On nor
\* ServeJSONRPC2 takes a lock, so a lookup may run between any two statements
\* of On and sees the slice as that statement left it.
EmptyInfo == [name |-> "", handler |-> "nil"]

\* s.handlers = append(s.handlers, handlerInfo{})
AppendSlot(hs) == Append(hs, EmptyInfo)
\* copy(s.handlers[idx+1:], s.handlers[idx:])
ShiftFrom(hs, idx) == [i \in 1..Len(hs) |-> IF i > idx THEN hs[i - 1] ELSE hs[i]]
\* s.handlers[idx] = handlerInfo{name, m}
StoreAt(hs, idx, name, m) == [hs EXCEPT ![idx] = [name |-> name, handler |-> m]]

\* The lookup of ServeJSONRPC2: the handler the name resolves to, if any.
Resolve(hs, name) ==
  LET idx == SearchIdx(hs, name) IN
    IF idx > Len(hs) \/ hs[idx].name # name
      THEN [found |-> FALSE, handler |-> "nil"]
      ELSE [found |-> TRUE, handler |-> hs[idx].handler]

\* On up to its first write: the search, then the replacement of the handler
\* of a registered name, after which On returns, or the append of an empty slot.
OnSearch(name, m) ==
  /\ on.pc = "idle"
  /\ Len(onCalls) < MaxOns
  /\ LET idx == SearchIdx(handlers, name) IN
       IF idx <= Len(handlers) /\ handlers[idx].name = name
         THEN /\ handlers' = [handlers EXCEPT ![idx].handler = m]
              /\ onCalls' = Append(onCalls, <<name, m>>)
              /\ on' = on
         ELSE /\ handlers' = AppendSlot(handlers)
              /\ on' = [pc |-> "appended", name |-> name, m |-> m, idx |-> idx]
              /\ onCalls' = onCalls
  /\ UNCHANGED <<inS, outS, semaphore, conns, tasks, releasing, unitsSent>>
  /\ UNCHANGED <<clientVars, idc, looked, ecs>>

OnShift ==
  /\ on.pc = "appended"
  /\ handlers' = ShiftFrom(handlers, on.idx)
  /\ on' = [on EXCEPT !.pc = "copied"]
  /\ UNCHANGED <<inS, outS, onCalls, semaphore, conns, tasks, releasing, unitsSent>>
  /\ UNCHANGED <<clientVars, idc, looked, ecs>>

OnStore ==
  /\ on.pc = "copied"
  /\ handlers' = StoreAt(handlers, on.idx, on.name, on.m)
  /\ onCalls' = Append(onCalls, <<on.name, on.m>>)
  /\ on' = IdleOn
  /\ UNCHANGED <<inS, outS, semaphore, conns, tasks, releasing, unitsSent>>
  /\ UNCHANGED <<clientVars, idc, looked, ecs>>

\* A dispatch looks a name up; kept with it are the handlers that calls of On
\* which have returned registered for the name, and the handler of a call of
\* On for the name that has not returned yet.
Dispatch(name) ==
  /\ LET r == Resolve(handlers, name) IN
       looked' = [op |-> "lookup", name |-> name, found |-> r.found, handler |-> r.handler,
                  registered |-> {onCalls[k][2] : k \in {j \in 1..Len(onCalls) : onCalls[j][1] = name}},
                  pending |-> IF on.pc # "idle" /\ on.name = name THEN {on.m} ELSE {}]
  /\ UNCHANGED <<inS, outS, handlers, onCalls, semaphore, conns, tasks, releasing, unitsSent>>
  /\ UNCHANGED <<clientVars, idc, on, ecs>>

RaceNext ==
  \/ \E name \in Range(NameOrder) : \E m \in HandlerKinds : OnSearch(name, m)
  \/ OnShift
  \/ OnStore
  \/ \E name \in Range(NameOrder) : Dispatch(name)

SpecRace == InitRegistry /\ [][RaceNext]_vars

\* ErrorCode.String alone, called once with any code near the reserved ones.
MaxCodeMargin == 100
ErrorCodes == (ParseErrorCode - MaxCodeMargin)..(ServerErrorStart + MaxCodeMargin) \cup {0, 1}

StringCall(e) ==
  /\ ecs.op = "none"
  /\ ecs' = [op |-> "string", code |-> e, out |-> ErrorCodeString(e)]
  /\ UNCHANGED <<clientVars, streamVars, serverVars, idc, on, looked>>

CodeNext == \E e \in ErrorCodes : StringCall(e)

SpecCode == Init /\ [][CodeNext]_vars

\* The ID codec alone: one text is decoded, or one ID is encoded, decoded and
\* encoded again.
MaxTextLen == 4
MaxIDInt == 120
MaxStrLen == 2
IDAlphabet == {"-", "0", "1", "7", ".", "e", "q", "b", "a"}
IDTexts == SeqsUpTo(IDAlphabet, MaxTextLen) \cup {TextNull, <<"t", "r", "u", "e">>}
IDValues ==
  {IDValue(<<>>, <<>>)}
    \cup {IDValue(<<i>>, <<>>) : i \in (0 - MaxIDInt)..MaxIDInt}
    \cup {IDValue(<<>>, <<str>>) : str \in SeqsUpTo({"a", "q", "b"}, MaxStrLen)}

\* json.Unmarshal(text, &id), then json.Marshal(id) when it succeeded.
IDDecode(text) ==
  /\ idc.op = "none"
  /\ LET d == IDUnmarshalJSON(text) IN
       idc' = [op |-> "decode", text |-> text, ok |-> d.ok, src |-> IDValue(<<>>, <<>>),
               id |-> d.id, out |-> IF d.ok THEN IDMarshalJSON(d.id) ELSE <<>>]
  /\ UNCHANGED <<clientVars, streamVars, serverVars, on, looked, ecs>>

\* json.Marshal(src), json.Unmarshal of that text, json.Marshal of the result.
IDRoundTrip(src) ==
  /\ idc.op = "none"
  /\ LET d == IDUnmarshalJSON(IDMarshalJSON(src)) IN
       idc' = [op |-> "roundtrip", text |-> IDMarshalJSON(src), ok |-> d.ok, src |-> src,
               id |-> d.id, out |-> IF d.ok THEN IDMarshalJSON(d.id) ELSE <<>>]
  /\ UNCHANGED <<clientVars, streamVars, serverVars, on, looked, ecs>>

IDNext ==
  \/ \E text \in IDTexts : IDDecode(text)
  \/ \E src \in IDValues : IDRoundTrip(src)

SpecID == Init /\ [][IDNext]_vars

(***************************************************************************)
(* Properties of the client                                                *)
(***************************************************************************)
\* What a caller holds after receiving from channel c: the response the peer
\* sends under ID c, or the zero Response of a closed channel.
Received(c) == {PeerPayload(Int64ID(c)), ZeroResponse}

\* C1: under every interleaving of Call and Batch and every arrival order, a
\* Response is delivered only on the channel made for the ID it carries, each
\* channel is sent on at most once, and what a caller takes from its channel is
\* the response carrying its own ID.
C1_ResponseCorrelation ==
  /\ \A c \in DOMAIN chans :
       /\ chans[c].sent <= 1
       /\ \A k \in 1..Len(chans[c].buf) : chans[c].buf[k].ID = Int64ID(c)
  /\ \A id \in DOMAIN ch : ch[id] = id
  /\ rl.pc = "send" => Head(rl.msgs).ID = Int64ID(rl.c)
  /\ \A p \in Callers :
       /\ callers[p].kind = "call" /\ callers[p].pc = "done" =>
            \/ callers[p].err \in {<<ErrCanceled>>, <<ErrWrite>>, <<ErrUnmarshal>>}
            \/ /\ callers[p].err = PeerPayload(Int64ID(callers[p].ids[1])).Error
               /\ callers[p].result = PeerPayload(Int64ID(callers[p].ids[1])).Result
       /\ callers[p].kind = "batch" =>
            \A k \in 1..Len(callers[p].resps) :
              callers[p].resps[k] # <<>> =>
                \E r \in Received(callers[p].chs[k]) :
                  /\ callers[p].resps[k][1].Result = r.Result
                  /\ callers[p].resps[k][1].Error = r.Error

\* Two concurrent Calls have both returned what the peer sent under their IDs.
C1_Witness ==
  \E p, q \in Callers :
    /\ p # q
    /\ callers[p].kind = "call" /\ callers[p].pc = "done"
    /\ callers[q].kind = "call" /\ callers[q].pc = "done"
    /\ callers[p].result = <<JInt(callers[p].ids[1])>>
    /\ callers[q].err = PeerPayload(Int64ID(callers[q].ids[1])).Error
    /\ callers[q].err # <<>>

\* C5: a Batch that returns without error returns one entry per request, nil at
\* every notification's index and, at every call's index, the request's method
\* and params with the result and error of the response carrying the ID minted
\* for that request (the zero Response when Close closed the channel first).
C5_BatchAligned ==
  \A p \in Callers :
    callers[p].kind = "batch" /\ callers[p].pc = "done" /\ callers[p].err = <<>> =>
      /\ Len(callers[p].resps) = Len(callers[p].reqs)
      /\ \A k \in 1..Len(callers[p].reqs) :
           IF callers[p].reqs[k].IsNotify
             THEN callers[p].resps[k] = <<>>
             ELSE \E r \in Received(callers[p].chs[k]) :
                    /\ r = ZeroResponse => closePc = "done"
                    /\ callers[p].resps[k] =
                         <<BatchResponse(callers[p].reqs[k].Method, callers[p].reqs[k].Params,
                                         r.Result, r.Error)>>

\* One Batch of two calls returned both responses, another returned with a
\* notification's nil placeholder before a call's response.
C5_Witness ==
  \E p, q \in Callers :
    /\ callers[p].kind = "batch" /\ callers[p].pc = "done" /\ callers[p].err = <<>>
    /\ Len(callers[p].reqs) = 2
    /\ \A k \in 1..2 : /\ callers[p].resps[k] # <<>>
                       /\ callers[p].resps[k][1].Result # callers[p].resps[k][1].Error
    /\ callers[q].kind = "batch" /\ callers[q].pc = "done" /\ callers[q].err = <<>>
    /\ Len(callers[q].reqs) = 2
    /\ callers[q].reqs[1].IsNotify /\ callers[q].resps[1] = <<>>
    /\ callers[q].resps[2] # <<>>
    /\ callers[q].resps[2][1].Result # callers[q].resps[2][1].Error

\* C8: once a Call has returned the context's cancellation error, the
\* pending-call table holds no entry for its ID.
C8_CancelRemovesEntry ==
  \A p \in Callers :
    callers[p].kind = "call" /\ callers[p].pc = "done" /\ callers[p].err = <<ErrCanceled>> =>
      callers[p].ids[1] \notin DOMAIN ch

\* C9: every Call or Batch that is waiting for a response while Close is under
\* way eventually returns, and Close leaves the pending-call table empty.
C9_CloseUnblocks ==
  /\ \A p \in Callers :
       (closePc = "lock" /\ callers[p].pc = "wait") ~> (callers[p].pc = "done")
  /\ [][closePc = "lock" /\ closePc' = "done" => DOMAIN ch' = {}]_vars

(***************************************************************************)
(* Properties of the server                                                *)
(***************************************************************************)
\* The indices of the messages of a unit that are calls: they carry an ID.
CallIndices(cn) == {k \in 1..Len(cn.rs.Messages) : cn.rs.Messages[k].ID # NoID}

\* The responses in what a connection wrote for its current unit.
WrittenResponses(cn) == IF cn.wrote = <<>> THEN <<>> ELSE cn.wrote[1].msgs

CountID(q, id) == Cardinality({k \in 1..Len(q) : q[k].ID = id})

\* The connection has read a well-formed unit and finished serving it.
Served(cn) == cn.pc = "read" /\ cn.unit.kind \in {"obj", "arr"} /\ Len(cn.rs.Messages) >= 1

\* C3: for a notification, alone or inside a batch, whether its dispatch
\* succeeds or fails, no Response is produced, collected or written: every
\* response of a unit carries the ID of one of the unit's calls, no ID more
\* often than the unit has calls under it; and once the unit is served the
\* handler of every notification naming a registered method has been invoked.
C3_NoResponseToNotification ==
  \A c \in Conns :
    conns[c].unit.kind \in {"obj", "arr"} =>
      /\ \A k \in 1..Len(conns[c].bch) : \A j \in 1..Len(conns[c].bch[k]) :
           conns[c].bch[k][j].ID # NoID
      /\ \A k \in 1..Len(conns[c].results) :
           \E i \in CallIndices(conns[c]) : conns[c].rs.Messages[i].ID = conns[c].results[k].ID
      /\ \A k \in 1..Len(WrittenResponses(conns[c])) :
           /\ \E i \in CallIndices(conns[c]) :
                conns[c].rs.Messages[i].ID = WrittenResponses(conns[c])[k].ID
           /\ CountID(WrittenResponses(conns[c]), WrittenResponses(conns[c])[k].ID)
                <= CountID(conns[c].rs.Messages, WrittenResponses(conns[c])[k].ID)
      /\ Served(conns[c]) =>
           \A i \in 1..Len(conns[c].rs.Messages) :
             conns[c].rs.Messages[i].ID = NoID /\ Registered(handlers, conns[c].rs.Messages[i].Method)
               => i \in conns[c].invoked

\* One connection served a single notification whose handler ran and wrote
\* nothing; another served a batch of a failing notification and a call and
\* wrote the call's response only.
C3_Witness ==
  \E c, d \in Conns :
    /\ Served(conns[c]) /\ ~conns[c].rs.IsBatch
    /\ conns[c].rs.Messages[1].ID = NoID /\ conns[c].invoked = {1} /\ conns[c].wrote = <<>>
    /\ Served(conns[d]) /\ conns[d].rs.IsBatch /\ Len(conns[d].rs.Messages) = 2
    /\ conns[d].rs.Messages[1].ID = NoID /\ conns[d].rs.Messages[1].Method = "noSuch"
    /\ conns[d].rs.Messages[2].ID # NoID
    /\ Len(WrittenResponses(conns[d])) = 1

\* C4: a served batch of N calls and M notifications, N+M >= 1, has made the
\* server write exactly one array with exactly N responses, one per call ID;
\* an empty array when N = 0.
C4_BatchReplyShape ==
  \A c \in Conns :
    Served(conns[c]) /\ conns[c].rs.IsBatch =>
      /\ Len(conns[c].wrote) = 1
      /\ conns[c].wrote[1].kind = "arr"
      /\ Len(conns[c].wrote[1].msgs) = Cardinality(CallIndices(conns[c]))
      /\ \A i \in CallIndices(conns[c]) :
           CountID(conns[c].wrote[1].msgs, conns[c].rs.Messages[i].ID)
             = CountID(conns[c].rs.Messages, conns[c].rs.Messages[i].ID)

\* One connection served a batch of a notification and a call, another a batch
\* of notifications only, answered with an empty array.
C4_Witness ==
  \E c, d \in Conns :
    /\ Served(conns[c]) /\ conns[c].rs.IsBatch /\ Len(conns[c].rs.Messages) = 2
    /\ Cardinality(CallIndices(conns[c])) = 1
    /\ conns[c].rs.Messages[1].ID = NoID
    /\ Len(conns[c].wrote[1].msgs) = 1
    /\ Served(conns[d]) /\ conns[d].rs.IsBatch
    /\ CallIndices(conns[d]) = {}
    /\ conns[d].wrote = <<WireArr(<<>>)>>

\* C6: the batch-message dispatches of the server that are running, over all
\* its connections, are never more than the configured maximum; each holds one
\* slot of the semaphore from before its start until after its completion.
C6_BatchDispatchBound ==
  /\ Cardinality(tasks) <= MaxConcurrentCalls
  /\ semaphore = Cardinality(tasks) + releasing
  /\ semaphore <= MaxConcurrentCalls

\* The semaphore is full while a spawn loop has a message left to start, and
\* the running dispatches belong to two connections.
C6_Witness ==
  /\ Cardinality(tasks) = MaxConcurrentCalls
  /\ \E c \in Conns : conns[c].pc = "spawn"
  /\ \E t, u \in tasks : t[1] # u[1]

\* The handler invocations in progress: single messages being served and
\* batch messages being dispatched, each naming a registered method.
HandlersInProgress ==
  Cardinality({c \in Conns : conns[c].pc = "single"
                 /\ Registered(handlers, conns[c].rs.Messages[1].Method)})
  + Cardinality({t \in tasks : Registered(handlers, conns[t[1]].rs.Messages[t[2]].Method)})

\* C7: over all connections of the server, the handler invocations in
\* progress, from single messages and from batches alike, never exceed the
\* configured maximum of concurrent dispatches.
C7_HandlerCap == HandlersInProgress <= MaxConcurrentCalls

\* C10: a server that has read an empty batch eventually has written an error
\* Response for it and is reading the next unit of the stream.
C10_EmptyBatchReported ==
  \A c \in Conns :
    (conns[c].unit = WireArr(<<>>) /\ conns[c].pc = "collect")
      ~> (conns[c].pc = "read" /\ Len(conns[c].wrote) = 1 /\ conns[c].wrote[1].kind = "obj"
            /\ conns[c].wrote[1].msgs[1].Error # <<>>)

(***************************************************************************)
(* End to end                                                              *)
(***************************************************************************)
\* C2: with the client and the server joined by a reliable stream, a Call of
\* the registered method add that has written its request eventually returns,
\* without error, the sum its handler computed for the params sent.
C2_CallCompletes ==
  \A p \in Callers :
    (callers[p].kind = "call" /\ callers[p].pc = "wait" /\ callers[p].reqs[1].Method = "add")
      ~> (callers[p].kind = "call" /\ callers[p].pc = "done" /\ callers[p].err = <<>>
            /\ callers[p].result = <<JInt(Sum(callers[p].reqs[1].Params.l))>>)

(***************************************************************************)
(* Error handling of the server                                            *)
(***************************************************************************)
\* C11: a unit that fails to decode makes the serving loop write exactly one
\* error Response, with a null ID and code -32600, invoke no handler and start
\* no dispatch for it, and go back to reading; the loop returns only when it
\* reads the end of the stream.
C11_BadUnitReported ==
  /\ [](\A c \in Conns :
         conns[c].unit = WireBad =>
           /\ conns[c].pc \in {"read", "returned"}
           /\ Len(conns[c].wrote) = 1
           /\ conns[c].wrote[1].kind = "obj"
           /\ conns[c].wrote[1].msgs[1].ID = NullID
           /\ conns[c].wrote[1].msgs[1].Result = <<>>
           /\ Len(conns[c].wrote[1].msgs[1].Error) = 1
           /\ conns[c].wrote[1].msgs[1].Error[1].Code = -32600
           /\ conns[c].wrote[1].msgs[1].Error[1].Message = "Invalid Request"
           /\ conns[c].invoked = {}
           /\ \A t \in tasks : t[1] # c)
  /\ [][\A c \in Conns :
          conns[c].pc # "returned" /\ conns'[c].pc = "returned" =>
            inS[c] # <<>> /\ Head(inS[c]).kind = "eof"]_vars

\* A connection has answered a unit that does not decode and is reading
\* again, its peer holding the one error response, while another has returned.
C11_Witness ==
  \E c, d \in Conns :
    /\ conns[c].unit = WireBad /\ conns[c].pc = "read"
    /\ Len(outS[c]) = 1 /\ outS[c][1].msgs[1].Error # <<>>
    /\ conns[d].pc = "returned"

\* The response written for the call at index i of the unit a connection served.
ResponsesFor(cn, i) ==
  {k \in 1..Len(WrittenResponses(cn)) : WrittenResponses(cn)[k].ID = cn.rs.Messages[i].ID}

\* C12: a call of a method name that is not in the registry is answered with
\* an error Response carrying code -32601, 'Method not found' and the call's
\* own ID, no handler is invoked for it, and the client's Call returns that
\* Error.
C12_MethodNotFound ==
  /\ \A c \in Conns :
       Served(conns[c]) =>
         \A i \in CallIndices(conns[c]) :
           ~(\E h \in 1..Len(handlers) : handlers[h].name = conns[c].rs.Messages[i].Method) =>
             /\ i \notin conns[c].invoked
             /\ ResponsesFor(conns[c], i) # {}
             /\ \A k \in ResponsesFor(conns[c], i) :
                  /\ WrittenResponses(conns[c])[k].Result = <<>>
                  /\ WrittenResponses(conns[c])[k].Error =
                       <<[Code |-> -32601, Message |-> "Method not found", Data |-> <<>>]>>
  /\ \A p \in Callers :
       callers[p].kind = "call" /\ callers[p].pc = "done"
         /\ ~(\E h \in 1..Len(handlers) : handlers[h].name = callers[p].reqs[1].Method) =>
           /\ callers[p].result = <<>>
           /\ callers[p].err = <<[Code |-> -32601, Message |-> "Method not found", Data |-> <<>>]>>

\* The server answered a call of noSuch under the call's ID and the Call has
\* returned the error.
C12_Witness ==
  \E p \in Callers :
    /\ callers[p].kind = "call" /\ callers[p].pc = "done"
    /\ callers[p].reqs[1].Method = "noSuch"
    /\ callers[p].err # <<>> /\ callers[p].err[1].Code = MethodNotFoundCode
    /\ Served(conns[ClientConn])
    /\ conns[ClientConn].rs.Messages[1].Method = "noSuch"
    /\ conns[ClientConn].rs.Messages[1].ID = Int64ID(callers[p].ids[1])
    /\ Len(conns[ClientConn].wrote) = 1

\* C13: the Response built for a call has exactly one of result and error
\* set: the typed Error of the handler of fail is forwarded with its code,
\* message and data unchanged, the other error of the handler of boom becomes
\* code -32603 'Internal error' without data, and the success of the handler
\* of add sets the result and no error.
C13_ResultXorError ==
  \A c \in Conns :
    Served(conns[c]) =>
      /\ \A k \in 1..Len(WrittenResponses(conns[c])) :
           (WrittenResponses(conns[c])[k].Result = <<>>) # (WrittenResponses(conns[c])[k].Error = <<>>)
      /\ \A i \in CallIndices(conns[c]) : \A k \in ResponsesFor(conns[c], i) :
           /\ conns[c].rs.Messages[i].Method = "fail" =>
                /\ WrittenResponses(conns[c])[k].Result = <<>>
                /\ WrittenResponses(conns[c])[k].Error =
                     <<[Code |-> -32000, Message |-> "custom", Data |-> <<JInt(7)>>]>>
           /\ conns[c].rs.Messages[i].Method = "boom" =>
                /\ WrittenResponses(conns[c])[k].Result = <<>>
                /\ WrittenResponses(conns[c])[k].Error =
                     <<[Code |-> -32603, Message |-> "Internal error", Data |-> <<>>]>>
           /\ conns[c].rs.Messages[i].Method = "add" /\ conns[c].rs.Messages[i].Params = <<AddParams>> =>
                /\ WrittenResponses(conns[c])[k].Result = <<JInt(3)>>
                /\ WrittenResponses(conns[c])[k].Error = <<>>

\* One Call has returned the typed Error of its handler with its data, and
\* another the Internal error standing for its handler's other error.
C13_Witness ==
  \E p, q \in Callers :
    /\ callers[p].kind = "call" /\ callers[q].kind = "call"
    /\ callers[p].pc = "done" /\ callers[p].reqs[1].Method = "fail"
    /\ callers[p].err = <<ErrCustom>>
    /\ callers[q].pc = "done" /\ callers[q].reqs[1].Method = "boom"
    /\ callers[q].err = <<ErrInternalError>>
    /\ Served(conns[ClientConn]) /\ Len(conns[ClientConn].wrote) = 1

(***************************************************************************)
(* The registry                                                            *)
(***************************************************************************)
\* The On calls made under a name, by their position in the history.
OnCallsOf(name) == {k \in 1..Len(onCalls) : onCalls[k][1] = name}

\* The handler of the last On call made under a name.
LastOn(name) ==
  onCalls[CHOOSE k \in OnCallsOf(name) : \A j \in OnCallsOf(name) : j <= k][2]

\* C14: after any sequence of On calls the registry holds every registered
\* name exactly once, in strictly ascending order of the names; dispatching a
\* name yields what the handler most recently registered under it returns,
\* and dispatching a name never registered fails with Method not found.
C14_Registry ==
  /\ \A i, j \in 1..Len(handlers) :
       i < j => Rank(handlers[i].name) < Rank(handlers[j].name)
  /\ {handlers[i].name : i \in 1..Len(handlers)} = {onCalls[k][1] : k \in 1..Len(onCalls)}
  /\ \A name \in Range(NameOrder) :
       IF OnCallsOf(name) = {}
         THEN ServeJSONRPC2(handlers, Request(name, <<AddParams>>, Int64ID(1)))
                = Returned(JNull, <<[Code |-> -32601, Message |-> "Method not found", Data |-> <<>>]>>, TRUE)
         ELSE ServeJSONRPC2(handlers, Request(name, <<AddParams>>, Int64ID(1)))
                = HandlerServe(LastOn(name), <<AddParams>>)

\* A name was registered, another registered before it in the list, then the
\* first registered again with another handler.
C14_Witness ==
  /\ Len(onCalls) = 3
  /\ onCalls[1][1] = onCalls[3][1]
  /\ onCalls[1][2] # onCalls[3][2]
  /\ Rank(onCalls[2][1]) < Rank(onCalls[1][1])
  /\ Len(handlers) = 2

(***************************************************************************)
(* The wire                                                                *)
(***************************************************************************)
\* C15: the message list Batch writes, whose is-batch flag is set, goes on
\* the wire as an array for every length, so that decoding what was written
\* gives back the flag and the messages.
C15_BatchFlagOnWire ==
  [][\A p \in Callers :
       callers[p].kind = "batch" /\ callers[p].pc = "write" /\ callers'[p].pc # "write"
         /\ inS'[ClientConn] # inS[ClientConn] =>
           LET u == inS'[ClientConn][Len(inS'[ClientConn])] IN
             /\ u.kind = "arr"
             /\ UnmarshalList(u).IsBatch
             /\ UnmarshalList(u).Messages = BatchMessages(callers[p].reqs, callers[p].chs)]_vars

(***************************************************************************)
(* The identifier                                                          *)
(***************************************************************************)
\* The text is an optional minus sign followed by digits only, at least one.
IsIntegerText(text) ==
  /\ text # <<>>
  /\ LET digits == IF Head(text) = "-" THEN Tail(text) ELSE text IN
       /\ digits # <<>>
       /\ \A k \in 1..Len(digits) : digits[k] \in Range(DigitChars)

\* The text is a JSON integer literal: no leading zero before another digit.
IsIntegerLiteral(text) ==
  /\ IsIntegerText(text)
  /\ LET digits == IF Head(text) = "-" THEN Tail(text) ELSE text IN
       Len(digits) > 1 => Head(digits) # "0"

\* C16: an integer, string or null ID that is encoded, decoded and encoded
\* again gives the same text and the same variant; a decode never leaves both
\* the integer and the string set; and a decode succeeds only on null (or no
\* data), on digits with an optional minus sign, whose value it takes in
\* full (an integer literal is written back as it was read), or on a quoted text: a number with a fraction or an exponent, or any
\* other text, fails.
C16_IDRoundTrip ==
  /\ ~(idc.id.i64 # <<>> /\ idc.id.str # <<>>)
  /\ idc.op = "roundtrip" =>
       /\ idc.ok
       /\ idc.id = idc.src
       /\ idc.out = idc.text
  /\ idc.op = "decode" /\ idc.ok =>
       \/ idc.text \in {TextNull, <<>>} /\ idc.id = IDValue(<<>>, <<>>)
       \/ /\ IsIntegerText(idc.text)
          /\ idc.id.i64 # <<>> /\ idc.id.str = <<>>
          /\ IsIntegerLiteral(idc.text) /\ idc.text # <<"-", "0">> => idc.out = idc.text
       \/ /\ Head(idc.text) = "q" /\ idc.text[Len(idc.text)] = "q" /\ Len(idc.text) >= 2
          /\ idc.id.str # <<>> /\ idc.id.i64 = <<>>
  /\ idc.op = "decode" /\ (\E k \in 1..Len(idc.text) : idc.text[k] \in {".", "e"})
       /\ Head(idc.text) # "q" => ~idc.ok

\* The text -1.7 was given to the decoder, which failed.
C16_Witness ==
  /\ idc.op = "decode"
  /\ idc.text = <<"-", "1", ".", "7">>
  /\ ~idc.ok /\ idc.id = IDValue(<<>>, <<>>)

(***************************************************************************)
(* Notify and the failure paths of the client                              *)
(***************************************************************************)
\* C17: Notify writes one Request that carries no ID and returns once it is
\* written, or returns the write error having written nothing; it makes no
\* channel and leaves the pending-call table and the ID counter as they were.
C17_NotifyFrame ==
  [][\A p \in Callers :
       callers[p].pc = "idle" /\ callers'[p].kind = "notify" =>
         /\ callers'[p].pc = "done"
         /\ ch' = ch /\ chans' = chans /\ nextID' = nextID
         /\ \/ /\ callers'[p].err = <<>>
               /\ Len(inS'[ClientConn]) = Len(inS[ClientConn]) + 1
               /\ SubSeq(inS'[ClientConn], 1, Len(inS[ClientConn])) = inS[ClientConn]
               /\ inS'[ClientConn][Len(inS'[ClientConn])].kind = "obj"
               /\ inS'[ClientConn][Len(inS'[ClientConn])].msgs[1].ID = NoID
               /\ inS'[ClientConn][Len(inS'[ClientConn])].msgs[1].Method = callers'[p].reqs[1].Method
               /\ inS'[ClientConn][Len(inS'[ClientConn])].msgs[1].Params = <<callers'[p].reqs[1].Params>>
            \/ /\ callers'[p].err = <<ErrWrite>>
               /\ inS' = inS]_vars

\* A Notify has returned after its write while a call made before it is still
\* pending, the counter standing where that call left it.
C17_Witness ==
  \E p, q \in Callers :
    /\ callers[p].kind = "notify" /\ callers[p].pc = "done" /\ callers[p].err = <<>>
    /\ callers[q].kind = "call" /\ callers[q].pc = "wait"
    /\ DOMAIN ch = {callers[q].ids[1]}
    /\ nextID = 1
    /\ Len(inS[ClientConn]) = 2

\* C18: a request that carries an ID and names the method registered with
\* Notify is answered: its handler is invoked, and the server writes one
\* success Response with the request's ID and a null result, which the
\* client's Call returns without error.
C18_NotifyMethodCalled ==
  /\ \A c \in Conns :
       Served(conns[c]) =>
         \A i \in CallIndices(conns[c]) :
           conns[c].rs.Messages[i].Method = "count"
             /\ conns[c].rs.Messages[i].Params = <<CountParams>> =>
               /\ i \in conns[c].invoked
               /\ Cardinality(ResponsesFor(conns[c], i)) = 1
               /\ \A k \in ResponsesFor(conns[c], i) :
                    /\ WrittenResponses(conns[c])[k].Result = <<JNull>>
                    /\ WrittenResponses(conns[c])[k].Error = <<>>
  /\ \A p \in Callers :
       callers[p].kind = "call" /\ callers[p].pc = "done"
         /\ callers[p].reqs[1].Method = "count" =>
           callers[p].err = <<>> /\ callers[p].result = <<JNull>>

\* The server has answered a call of count under its ID and the Call has
\* returned.
C18_Witness ==
  \E p \in Callers :
    /\ callers[p].kind = "call" /\ callers[p].pc = "done"
    /\ callers[p].reqs[1].Method = "count" /\ callers[p].err = <<>>
    /\ Served(conns[ClientConn])
    /\ conns[ClientConn].rs.Messages[1].Method = "count"
    /\ conns[ClientConn].rs.Messages[1].ID = Int64ID(callers[p].ids[1])
    /\ conns[ClientConn].invoked = {1}
    /\ Len(conns[ClientConn].wrote) = 1

\* C19: when the write of a Call fails, the Call returns the write error, its
\* own entry is gone from the pending-call table, nothing was or will be sent
\* on its channel, and every other pending entry and its channel are as they
\* were.
C19_CallWriteFailure ==
  [][\A p \in Callers :
       callers[p].kind = "call" /\ callers[p].pc = "write" /\ callers'[p].pc = "done" =>
         /\ ~panicked'
         /\ callers'[p].err = <<ErrWrite>>
         /\ callers[p].ids[1] \notin DOMAIN ch'
         /\ chans'[callers[p].chs[1]].sent = 0
         /\ \A k \in DOMAIN ch \ {callers[p].ids[1]} :
              k \in DOMAIN ch' /\ ch'[k] = ch[k] /\ chans'[ch[k]] = chans[ch[k]]]_vars

\* C20: a Batch that takes the cancellation of its context while waiting
\* returns the cancellation error and no responses; from then on no ID minted
\* for the batch is in the pending-call table: the entries already delivered
\* stay removed and their channels as they were, the pending ones are removed
\* and their channels closed; the entries of other calls and their channels
\* are untouched.
C20_BatchCancel ==
  /\ [](\A p \in Callers :
         callers[p].kind = "batch" /\ callers[p].pc = "done" /\ callers[p].err = <<ErrCanceled>> =>
           /\ callers[p].resps = <<>>
           /\ \A j \in 1..Len(callers[p].ids) : callers[p].ids[j] \notin DOMAIN ch)
  /\ [][\A p \in Callers :
          callers[p].kind = "batch" /\ callers[p].pc = "wait" /\ callers'[p].pc = "done"
            /\ callers'[p].err = <<ErrCanceled>> =>
              /\ ~panicked'
              /\ \A j \in 1..Len(callers[p].ids) :
                   IF callers[p].ids[j] \in DOMAIN ch
                     THEN /\ chans'[ch[callers[p].ids[j]]].closed
                          /\ chans'[ch[callers[p].ids[j]]].buf = chans[ch[callers[p].ids[j]]].buf
                     ELSE chans'[callers[p].ids[j]] = chans[callers[p].ids[j]]
              /\ \A k \in DOMAIN ch \ Range(callers[p].ids) :
                   k \in DOMAIN ch' /\ ch'[k] = ch[k] /\ chans'[ch[k]] = chans[ch[k]]]_vars

\* A Batch of two calls was cancelled after the response to its first call
\* was delivered and before the one to its second, while the Call of another
\* caller is still pending.
C20_Witness ==
  \E p, q \in Callers :
    /\ callers[p].kind = "batch" /\ callers[p].pc = "done" /\ callers[p].err = <<ErrCanceled>>
    /\ Len(callers[p].ids) = 2
    /\ chans[callers[p].ids[1]].sent = 1
    /\ chans[callers[p].ids[2]].sent = 0 /\ chans[callers[p].ids[2]].closed
    /\ callers[q].kind = "call" /\ callers[q].pc = "wait"
    /\ DOMAIN ch = {callers[q].ids[1]}
    /\ ~chans[callers[q].ids[1]].closed

\* The IDs the callers hold, as (caller, index) pairs.
MintedSlots == {<<p, j>> : p \in Callers, j \in 1..MaxBatchLen}

HeldSlots == {s \in MintedSlots : s[2] <= Len(callers[s[1]].ids)}

\* C21: under every interleaving of Call and Batch, every call gets a distinct
\* integer ID: no two calls hold the same ID, the IDs of a batch increase, the
\* IDs handed out so far are exactly those below the counter, every key of the
\* pending-call table is below the counter; and a registration hands out the
\* IDs from the counter's value on, moving the counter past them, none of them
\* handed out before.
C21_UniqueIDs ==
  /\ [](/\ \A s, t \in HeldSlots :
             s # t => callers[s[1]].ids[s[2]] # callers[t[1]].ids[t[2]]
        /\ \A p \in Callers : \A j \in 1..(Len(callers[p].ids) - 1) :
             callers[p].ids[j] < callers[p].ids[j + 1]
        /\ {callers[s[1]].ids[s[2]] : s \in HeldSlots} = 0..(nextID - 1)
        /\ DOMAIN chans = 0..(nextID - 1)
        /\ \A k \in DOMAIN ch : k < nextID)
  /\ [][\A p \in Callers :
          callers[p].pc = "idle" /\ callers'[p].pc = "write" =>
            /\ nextID' = nextID + Len(callers'[p].ids)
            /\ \A j \in 1..Len(callers'[p].ids) :
                 /\ callers'[p].ids[j] = nextID + (j - 1)
                 /\ callers'[p].ids[j] \notin DOMAIN chans
                 /\ callers'[p].ids[j] \in DOMAIN ch'
            /\ DOMAIN ch' = DOMAIN ch \cup Range(callers'[p].ids)]_vars
  /\ [][nextID' >= nextID]_vars

\* A Batch whose first request is a notification and a Batch of two calls
\* have both registered, and hold three distinct IDs between them.
C21_Witness ==
  \E p, q \in Callers :
    /\ callers[p].kind = "batch" /\ Len(callers[p].reqs) = 2 /\ Len(callers[p].ids) = 1
    /\ callers[p].reqs[1].IsNotify
    /\ callers[q].kind = "batch" /\ Len(callers[q].ids) = 2
    /\ nextID = 3
    /\ Cardinality(DOMAIN ch) = 3

\* The read loop is at a response that names no pending call: its ID is
\* null, a string, or an integer that is not in the table.
AtUnmatched ==
  /\ rl.pc = "onResponse"
  /\ Head(rl.msgs).ID.t = "int" => Head(rl.msgs).ID.v \notin DOMAIN ch

\* C22: when onResponse is given a Response whose ID is null, a string, or an
\* integer without a pending entry, the table, the channels and the callers
\* are left as they were, nothing panics, the mutex is free afterwards, and
\* the read loop is at the next response of the unit, or back at reading the
\* stream when there is none.
C22_UnmatchedDropped ==
  [][AtUnmatched /\ rl' # rl =>
       /\ ch' = ch /\ chans' = chans /\ callers' = callers
       /\ ~panicked' /\ mu' = "free"
       /\ rl'.msgs = Tail(rl.msgs)
       /\ rl'.pc = (IF Tail(rl.msgs) = <<>> THEN "decode" ELSE "onResponse")]_vars

\* A Batch has been cancelled, a response of an array was dropped, and the
\* read loop is delivering the response that followed it in the same array to
\* a caller that still waits.
C22_Witness ==
  /\ rl.pc = "send" /\ rl.dropped
  /\ \E p \in Callers : callers[p].pc = "wait" /\ rl.c \in Range(callers[p].ids)
  /\ \E q \in Callers : callers[q].kind = "batch" /\ callers[q].err = <<ErrCanceled>>

\* C23: once Close has been called, the read loop eventually returns (or the
\* process has panicked), whether or not the stream has reached its end.
C23_CloseStopsReadLoop == (closePc # "idle") ~> (rl.pc = "returned" \/ panicked)

\* C24: a connection that has entered the spawn loop of a batch eventually
\* has written the batch's array and is reading the next unit, whatever the
\* length of the batch and whatever the other connections do; every dispatch
\* started finishes; the semaphore holds exactly one slot per dispatch that
\* has not released yet, none when no dispatch is running, and it is empty
\* again once the batches in progress are served.
C24_BatchProgress ==
  /\ \A c \in Conns :
       (conns[c].pc = "spawn")
         ~> (conns[c].pc = "read" /\ Len(conns[c].wrote) = 1 /\ conns[c].wrote[1].kind = "arr")
  /\ [](semaphore = Cardinality(tasks) + releasing)
  /\ [](tasks = {} /\ releasing = 0 => semaphore = 0)
  /\ (semaphore > 0) ~> (semaphore = 0)

\* A batch longer than the semaphore's capacity waits in its spawn loop for
\* a slot: the semaphore is full, one slot is held by a dispatch of another
\* connection, and one dispatch of the batch has already sent its result.
C24_Witness ==
  \E c, d \in Conns :
    /\ c # d
    /\ conns[c].pc = "spawn"
    /\ Len(conns[c].rs.Messages) > MaxConcurrentCalls
    /\ semaphore = MaxConcurrentCalls
    /\ \E t \in tasks : t[1] = d
    /\ conns[c].bch # <<>>

\* C25: with On running beside dispatches, a lookup of a name that a returned
\* call of On registered finds a handler, and every handler a lookup finds
\* is one that On was called with for that name.
C25_RegistryRace ==
  looked.op = "lookup" =>
    /\ looked.registered # {} => looked.found
    /\ looked.found => looked.handler \in looked.registered \cup looked.pending

\* C26: under every interleaving of Call, Batch, the read loop and Close, with
\* their write-failure and cancellation paths, no goroutine closes a channel
\* that is closed or sends on one (either panics), a channel is sent on at
\* most once and only while open, and an entry removed from the table does
\* not come back to be removed again.
C26_ChannelDiscipline ==
  /\ [](~panicked)
  /\ [][\A c \in DOMAIN chans :
          /\ chans'[c].sent > chans[c].sent => ~chans[c].closed /\ chans[c].sent = 0
          /\ c \notin DOMAIN ch => c \notin DOMAIN ch']_vars

\* C27: whenever the read loop, holding the mutex, is at its send, the entry
\* is out of the table and the channel is open with an empty buffer, so the
\* send can be done at once, whether or not the caller still waits; only the
\* read loop keeps the mutex across steps, and its next step releases it.
C27_SendNeverBlocks ==
  /\ [](rl.pc = "send" =>
          /\ mu = "run"
          /\ rl.c \notin DOMAIN ch
          /\ ~chans[rl.c].closed /\ chans[rl.c].buf = <<>> /\ chans[rl.c].sent = 0
          /\ ENABLED RunSend)
  /\ [](mu # "free" => rl.pc = "send")
  /\ [][mu = "run" /\ rl' # rl => mu' = "free" /\ ~panicked']_vars

\* The read loop holds the mutex and is about to send to the channel of a Call
\* that has already returned on cancellation.
C27_Witness ==
  /\ rl.pc = "send" /\ mu = "run"
  /\ \E p \in Callers :
       /\ callers[p].kind = "call" /\ callers[p].pc = "done" /\ callers[p].err = <<ErrCanceled>>
       /\ callers[p].chs[1] = rl.c

\* The IDs of the responses in a unit the server wrote.
WrittenIDs(u) == {u.msgs[k].ID.v : k \in 1..Len(u.msgs)}
\* The number of the unit a peer that writes ahead gave the ID to.
UnitOf(id) == ((id - 1) % MaxUnits) + 1

\* C28: on one connection a unit is read only while the serving loop is at
\* its read, after the Response or the array of the previous unit has been
\* written; every write appends to the connection one whole unit, answering
\* the unit being served; so the responses stand on the connection in the
\* order their requests were written, a batch's responses together in one
\* array.
C28_PerConnectionOrder ==
  /\ [](\A c \in Conns :
          /\ \A i, j \in 1..Len(outS[c]) :
               i < j => \A a \in WrittenIDs(outS[c][i]) : \A b \in WrittenIDs(outS[c][j]) :
                          UnitOf(a) < UnitOf(b)
          /\ \A i \in 1..Len(outS[c]) :
               /\ outS[c][i].kind = "obj" => Len(outS[c][i].msgs) = 1
               /\ outS[c][i].kind = "arr" =>
                    \E n \in 1..MaxUnits : WrittenIDs(outS[c][i]) = {n, n + MaxUnits})
  /\ [][\A c \in Conns :
          /\ Len(inS'[c]) < Len(inS[c]) =>
               /\ conns[c].pc = "read"
               /\ CallIndices(conns[c]) # {} => conns[c].wrote # <<>>
          /\ outS'[c] # outS[c] =>
               /\ conns[c].pc \in {"single", "collect"}
               /\ outS'[c] = Append(outS[c], outS'[c][Len(outS'[c])])
               /\ WrittenIDs(outS'[c][Len(outS'[c])])
                    = {conns[c].rs.Messages[k].ID.v : k \in CallIndices(conns[c])}]_vars

\* A peer wrote a batch and then a single call on one connection; the server
\* has written the array of the batch and then the Response of the call.
C28_Witness ==
  \E c \in Conns :
    /\ Len(outS[c]) = 2
    /\ outS[c][1].kind = "arr" /\ WrittenIDs(outS[c][1]) = {1, 1 + MaxUnits}
    /\ outS[c][2].kind = "obj" /\ WrittenIDs(outS[c][2]) = {2}
    /\ conns[c].pc = "read" /\ inS[c] = <<>>

\* C29: ErrorCode.String gives each of the five reserved codes its standard
\* name, every code from -32099 to -32000 the name Server error, and every
\* other code the name Error, each followed by the code in parentheses.
C29_ErrorCodeNames ==
  ecs.op = "string" =>
    /\ ecs.out[1] =
         (IF ecs.code = -32700 THEN "Parse error ("
          ELSE IF ecs.code = -32600 THEN "Invalid Request ("
          ELSE IF ecs.code = -32601 THEN "Method not found ("
          ELSE IF ecs.code = -32602 THEN "Invalid params ("
          ELSE IF ecs.code = -32603 THEN "Internal error ("
          ELSE IF -32099 <= ecs.code /\ ecs.code <= -32000 THEN "Server error ("
          ELSE "Error (")
    /\ SubSeq(ecs.out, 2, Len(ecs.out) - 1) = FormatInt(ecs.code)
    /\ ecs.out[Len(ecs.out)] = ")"

====
